---- MODULE Spec2Model ----
(***************************************************************************)
(* Model of the Aurora DSQL auth token generator (source/auth_token.c).    *)
(*                                                                         *)
(* C strings are tuples of one-character strings; NULL is a distinguished  *)
(* tuple that is no character string.  Object handles (credentials         *)
(* provider, credentials, clock function, signing result) are tuples too,  *)
(* so that every pointer can be compared with NULL.                        *)
(***************************************************************************)
EXTENDS Integers, Sequences, FiniteSets, TLC

VARIABLES
    config,         \* struct aws_dsql_auth_config
    token,          \* token->token of the caller's struct aws_dsql_auth_token
    out_region,     \* *out_region of aws_dsql_auth_config_infer_region
    ret,            \* value returned by the last public call
    last_error,     \* aws_last_error() of the calling thread
    alloc_failed,   \* whether an allocation of the last inference call failed
    pc,             \* position of the calling thread
    calls,          \* aws_dsql_auth_token_generate calls made so far
    is_admin,       \* argument of the current generate call
    date_time,      \* generate: the signing date, in milliseconds
    credentials,    \* generate: struct aws_credentials *credentials
    cred_refs,      \* references this code holds on the resolved credentials
    request,        \* generate: the struct aws_http_message
    result,         \* generate: int result
    creds_state,    \* s_load_credentials: struct aws_credentials_callback_state
    creds_cb,       \* the pending invocation of s_on_get_credentials_complete
    signable,       \* s_sign_request: struct aws_signable *signable
    signing_config, \* s_sign_request: struct aws_signing_config_aws
    context,        \* s_sign_request: struct aws_signing_userdata
    signing_cb,     \* the pending invocation of s_on_signing_complete
    resolve_calls,  \* aws_credentials_provider_get_credentials calls of this generate
    sign_calls,     \* aws_sign_request_aws calls of this generate
    waited,         \* how each wait of this generate call went
    torn_down,      \* teardowns of each bridge in this generate call
    clock,          \* the clock this generate call read, and what it read
    previous,       \* the generate call before this one: its inputs and outcome
    strings,        \* token strings created and destroyed so far
    provider_refs,  \* acquires and releases the config made on each provider
    config_ops,     \* calls made on the config after its init
    thread,         \* concurrent generate calls: the locals of each calling thread
    completion,     \* concurrent generate calls: the pending callback invocations
    str,            \* what the latest aws_dsql_auth_token_get_str returned
    cli             \* the dsql-token process: its arguments, locals, output and exit

inferVars == <<out_region, alloc_failed>>
callVars == <<calls, is_admin>>
generateVars == <<date_time, credentials, cred_refs, request, result>>
credsVars == <<creds_state, creds_cb>>
signVars == <<signable, signing_config, context, signing_cb>>
historyVars == <<resolve_calls, sign_calls, waited>>
\* what no step of a generate call writes: the config and the other threads
\* what the program using the library holds
clientVars == <<str, cli>>
outsideVars == <<config, provider_refs, config_ops, thread, completion, clientVars>>
\* records kept of what the calls did
traceVars == <<torn_down, clock, previous, strings>>

vars == <<outsideVars, traceVars, token, ret, last_error, pc, inferVars, callVars,
          generateVars, credsVars, signVars, historyVars>>

----------------------------------------------------------------------------
(* Pointers, return values and error codes.                                *)

NULL == <<"NULL">>
\* an out parameter whose pointer argument is itself NULL
NOPTR == <<"NOPTR">>
\* an uninitialised pointer variable of the caller
UNINIT == <<"UNINIT">>

AWS_OP_SUCCESS == 0
AWS_OP_ERR == -1

\* distinct codes of aws-c-common's error enumeration
AWS_ERROR_SUCCESS == 0
AWS_ERROR_OOM == 1
AWS_ERROR_INVALID_ARGUMENT == 34
AWS_ERROR_INVALID_STATE == 44

----------------------------------------------------------------------------
(* C string helpers.                                                       *)

NUL == "\\0"

Min(S) == CHOOSE x \in S : \A y \in S : x <= y

\* strlen: the number of characters before the first NUL
strlen(s) ==
    LET Z == {i \in 1..Len(s) : s[i] = NUL}
    IN  IF Z = {} THEN Len(s) ELSE Min(Z) - 1

\* the C string a char buffer holds: its characters up to the first NUL
c_str(buf) == SubSeq(buf, 1, strlen(buf))

\* needle occurs in s at (0-based) offset i
OccursAt(s, needle, i) ==
    /\ i + Len(needle) <= Len(s)
    /\ SubSeq(s, i + 1, i + Len(needle)) = needle

\* mutant: the offset of the last occurrence of needle in s
strstr_last(s, needle) ==
    LET Hits == {i \in 0..Len(s) : OccursAt(s, needle, i)}
    IN  IF Hits = {} THEN -1 ELSE CHOOSE i \in Hits : \A j \in Hits : j <= i

\* strstr: the offset of the first occurrence of needle in s, -1 for NULL
strstr(s, needle) ==
    LET Hits == {i \in 0..Len(s) : OccursAt(s, needle, i)}
    IN  IF Hits = {} THEN -1 ELSE Min(Hits)

\* calloc(1, n): n zero bytes
calloc(n) == [i \in 1..n |-> NUL]

\* memcpy(buf + off, src, n): buf with n characters of src written at offset off
memcpy(buf, off, src, n) ==
    [i \in 1..Len(buf) |-> IF i > off /\ i <= off + n THEN src[i - off] ELSE buf[i]]

\* aws_string_new_from_c_str: a new string holding the C string of the buffer
aws_string_new_from_c_str(buf) == c_str(buf)

----------------------------------------------------------------------------
(* Hostname format: <cluster-id>.dsql.<region>.on.aws                      *)

DSQL_HOSTNAME_SUFFIX == <<".", "d", "s", "q", "l", ".">>
DSQL_HOSTNAME_END == <<".", "o", "n", ".", "a", "w", "s">>
CLUSTER_ID_LENGTH == 26
MIN_HOSTNAME_LENGTH == 40

\* aws_raise_error(code) followed by return: the call fails with code raised
Raised(code, region) ==
    [ret |-> AWS_OP_ERR, raised |-> TRUE, err |-> code, region_str |-> region]

\* mutant: looks for ".on.aws" anywhere in the hostname
ends_with_on_aws_anywhere(hostname, hostname_len) ==
    strstr(hostname, DSQL_HOSTNAME_END) # -1

\* strcmp(hostname + hostname_len - strlen(DSQL_HOSTNAME_END), DSQL_HOSTNAME_END) == 0
ends_with_on_aws(hostname, hostname_len) ==
    LET on_aws_suffix == hostname_len - strlen(DSQL_HOSTNAME_END)
    IN  SubSeq(hostname, on_aws_suffix + 1, hostname_len) = DSQL_HOSTNAME_END

\* mutant: the region loses its last character
region_length_short(region_start, region_end) == region_end - region_start - 1

\* size_t region_len = region_end - region_start
region_length(region_start, region_end) == region_end - region_start

\* s_extract_region_from_hostname, as a function of the hostname and of whether
\* its two allocations (the temporary buffer, the aws_string) succeed
s_extract_region_from_hostname(hostname, buffer_ok, string_ok) ==
    IF hostname = NULL THEN Raised(AWS_ERROR_INVALID_ARGUMENT, NULL)
    ELSE
    LET hostname_len == strlen(hostname)
        dsql_suffix_pos == strstr(hostname, DSQL_HOSTNAME_SUFFIX)
        on_aws_suffix == hostname_len - strlen(DSQL_HOSTNAME_END)
        region_start == dsql_suffix_pos + strlen(DSQL_HOSTNAME_SUFFIX)
        region_end == on_aws_suffix
        region_len == region_length(region_start, region_end)
        region_buffer ==
            memcpy(calloc(region_len + 1), 0,
                   SubSeq(hostname, region_start + 1, Len(hostname)), region_len)
    IN  IF hostname_len < MIN_HOSTNAME_LENGTH
            THEN Raised(AWS_ERROR_INVALID_ARGUMENT, NULL)
        ELSE IF dsql_suffix_pos = -1 \/ dsql_suffix_pos # CLUSTER_ID_LENGTH
            THEN Raised(AWS_ERROR_INVALID_ARGUMENT, NULL)
        ELSE IF ~ends_with_on_aws(hostname, hostname_len)
            THEN Raised(AWS_ERROR_INVALID_ARGUMENT, NULL)
        \* size_t is unsigned: region_len <= 0 holds of 0 only, and a negative
        \* difference is a huge length that no allocation serves
        ELSE IF region_len = 0
            THEN Raised(AWS_ERROR_INVALID_ARGUMENT, NULL)
        ELSE IF region_len < 0 \/ ~buffer_ok
            THEN Raised(AWS_ERROR_OOM, NULL)
        ELSE IF ~string_ok
            THEN Raised(AWS_ERROR_OOM, NULL)
        ELSE [ret |-> AWS_OP_SUCCESS, raised |-> FALSE, err |-> AWS_ERROR_SUCCESS,
              region_str |-> aws_string_new_from_c_str(region_buffer)]

\* aws_dsql_auth_config_infer_region, as a function of its arguments;
\* region_str is the value left in *out_region (out itself when untouched)
infer_region(cfg, out, buffer_ok, string_ok) ==
    IF cfg.hostname = NULL \/ out = NOPTR
        THEN Raised(AWS_ERROR_INVALID_ARGUMENT, out)
        ELSE s_extract_region_from_hostname(cfg.hostname, buffer_ok, string_ok)

----------------------------------------------------------------------------
(* Inputs of the region inference: hostnames built from a cluster id, an   *)
(* infix, a region and an ending, each drawn from the shapes the format    *)
(* allows and the ways a hostname can miss it.                             *)

MaxRegionLen == 3
MaxEmbedOffset == 2

Pad(n) == [i \in 1..n |-> "a"]

\* all strings over Chars of length at most n
RECURSIVE StringsUpTo(_, _)
StringsUpTo(Chars, n) ==
    IF n = 0 THEN {<<>>}
    ELSE LET Shorter == StringsUpTo(Chars, n - 1)
         IN  Shorter \cup {Append(s, c) : s \in Shorter, c \in Chars}

StrWrongInfix == <<".", "w", "r", "o", "n", "g", ".">>
StrWrongEnd == <<".", "w", "r", "o", "n", "g">>
StrUsEast1 == <<"u", "s", "-", "e", "a", "s", "t", "-", "1">>
StrShortId == <<"1", "2", "3", "4", "5">>

ClusterIds ==
    \* plain ids: 5, 25, 26 and 27 characters
    {StrShortId} \cup {Pad(n) : n \in (CLUSTER_ID_LENGTH - 1)..(CLUSTER_ID_LENGTH + 1)}
    \* 26 characters with ".dsql." among them
    \cup {Pad(k) \o DSQL_HOSTNAME_SUFFIX \o Pad(CLUSTER_ID_LENGTH - 6 - k) :
             k \in 0..MaxEmbedOffset}
    \* 26 characters ending in ".dsql", which the next "." completes
    \cup {Pad(CLUSTER_ID_LENGTH - 5) \o SubSeq(DSQL_HOSTNAME_SUFFIX, 1, 5)}

Infixes == {DSQL_HOSTNAME_SUFFIX, StrWrongInfix, <<>>}

Regions ==
    StringsUpTo({"u", "."}, MaxRegionLen)
        \cup {StrUsEast1, DSQL_HOSTNAME_SUFFIX, DSQL_HOSTNAME_END}

Endings == {DSQL_HOSTNAME_END, StrWrongEnd, <<>>}

HostnameInputs ==
    {c \o i \o r \o e : c \in ClusterIds, i \in Infixes, r \in Regions, e \in Endings}

----------------------------------------------------------------------------
(* Token generation: constants and the functions of its sequential steps.  *)

ACTION_DB_CONNECT == <<"D", "b", "C", "o", "n", "n", "e", "c", "t">>
ACTION_DB_CONNECT_ADMIN ==
    <<"D", "b", "C", "o", "n", "n", "e", "c", "t", "A", "d", "m", "i", "n">>
SERVICE_NAME == <<"d", "s", "q", "l">>
DEFAULT_EXPIRES_IN == 900
PATH_BUFFER_SIZE == 1024
NANOS_PER_MILLI == 1000000

StrGET == <<"G", "E", "T">>
StrHost == <<"H", "o", "s", "t">>
StrActionPath == <<"/", "?", "A", "c", "t", "i", "o", "n", "=">>

\* the result of a step that raises no error
Succeeded == [ret |-> AWS_OP_SUCCESS, raised |-> FALSE, err |-> AWS_ERROR_SUCCESS]
\* mutant: the error is dropped and the step reports success
Failed_dropped(code) == Succeeded

\* return aws_raise_error(code)
Failed(code) == [ret |-> AWS_OP_ERR, raised |-> TRUE, err |-> code]

\* mutant: the region check is missing
s_validate_token_config_no_region(cfg) ==
    IF cfg.hostname = NULL THEN Failed(AWS_ERROR_INVALID_ARGUMENT)
    ELSE IF cfg.credentials_provider = NULL THEN Failed(AWS_ERROR_INVALID_ARGUMENT)
    ELSE Succeeded

s_validate_token_config(cfg) ==
    IF cfg.hostname = NULL THEN Failed(AWS_ERROR_INVALID_ARGUMENT)
    ELSE IF cfg.credentials_provider = NULL THEN Failed(AWS_ERROR_INVALID_ARGUMENT)
    ELSE IF cfg.region = NULL THEN Failed(AWS_ERROR_INVALID_ARGUMENT)
    ELSE Succeeded

\* mutant: the two actions are swapped
select_action_swapped(admin) ==
    IF admin THEN ACTION_DB_CONNECT ELSE ACTION_DB_CONNECT_ADMIN

\* const char *action = is_admin ? ACTION_DB_CONNECT_ADMIN : ACTION_DB_CONNECT
select_action(admin) ==
    IF admin THEN ACTION_DB_CONNECT_ADMIN ELSE ACTION_DB_CONNECT

\* snprintf(buffer, size, "/?Action=%s", api_action): at most size - 1 characters
snprintf_action_path(size, api_action) ==
    LET whole == StrActionPath \o api_action
    IN  IF Len(whole) <= size - 1 THEN whole ELSE SubSeq(whole, 1, size - 1)

\* the request s_create_http_request builds
NoRequest == [state |-> "none", method |-> <<>>, path |-> <<>>, headers |-> <<>>]

s_create_http_request(api_action, host_name) ==
    [state |-> "live",
     method |-> StrGET,
     path |-> snprintf_action_path(PATH_BUFFER_SIZE, api_action),
     headers |-> <<[name |-> StrHost, value |-> host_name]>>]

\* mutant: a separator is written between the hostname and the path
token_buffer_with_separator(hostname, path) ==
    LET hostname_len == strlen(hostname)
        path_len == Len(path)
        total_len == hostname_len + 1 + path_len
    IN  memcpy(memcpy(memcpy(calloc(total_len + 1), 0, hostname, hostname_len),
                      hostname_len, <<":">>, 1),
               hostname_len + 1, path, path_len)

\* mutant: the new token is written after the one the token object holds
token_buffer_after_previous(hostname, path) ==
    (IF token = NULL THEN <<>> ELSE token)
        \o SubSeq(hostname, 1, strlen(hostname)) \o path \o <<NUL>>

\* s_create_token_string: the buffer of hostname_len + path_len + 1 bytes after
\* the two copies
token_buffer(hostname, path) ==
    LET hostname_len == strlen(hostname)
        path_len == Len(path)
        total_len == hostname_len + path_len
    IN  memcpy(memcpy(calloc(total_len + 1), 0, hostname, hostname_len),
               hostname_len, path, path_len)

s_create_token_string(hostname, path) ==
    aws_string_new_from_c_str(token_buffer(hostname, path))

\* aws_apply_signing_result_to_http_request: the query parameters of the
\* signing result are appended to the request's path; with no result there is
\* nothing to append
HasQuery(path) == \E i \in 1..Len(path) : path[i] = "?"

aws_apply_signing_result_to_http_request(req, signing_result) ==
    IF signing_result = NULL THEN req
    ELSE [req EXCEPT !.path =
            @ \o (IF HasQuery(@) THEN <<"&">> ELSE <<"?">>) \o signing_result]

\* the bridge structures, zeroed (AWS_ZERO_STRUCT); init tells whether the
\* mutex and the condition variable exist
ZeroCredsState(init) ==
    [init |-> init, mutex |-> "none", condition_var |-> "idle",
     credentials |-> NULL, error_code |-> 0, is_complete |-> FALSE]

ZeroContext(init) ==
    [init |-> init, mutex |-> "none", condition_var |-> "idle",
     request |-> NULL, signing_result_code |-> 0, is_signing_complete |-> FALSE]

NoSigningConfig ==
    [region |-> NULL, service |-> <<>>, credentials |-> NULL,
     expiration_in_seconds |-> 0, date |-> 0]

NoCredsCallback ==
    [pc |-> "none", sync |-> FALSE, credentials |-> NULL, error_code |-> 0]

NoSigningCallback ==
    [pc |-> "none", sync |-> FALSE, result |-> NULL, error_code |-> 0]

\* mutant: the predicate does not look at the flag
s_is_credentials_complete_always(state) == TRUE

\* condition variable predicates
s_is_credentials_complete(state) == state.is_complete

s_is_signing_complete_always(ctx) == TRUE

s_is_signing_complete(ctx) == ctx.is_signing_complete

\* aws_condition_variable_notify_one: a thread blocked in the wait is woken;
\* with no waiter the notification is lost
aws_condition_variable_notify_none(cv) == cv

aws_condition_variable_notify_one(cv) == IF cv = "waiter" THEN "signalled" ELSE cv


\* mutant: the system clock is read whatever the config says
clock_source_system(cfg) == "aws_sys_clock_get_ticks"

\* s_get_current_time: the clock that is read
clock_source(cfg) ==
    IF cfg.system_clock_fn # NULL THEN "system_clock_fn" ELSE "aws_sys_clock_get_ticks"

NoClock == [source |-> "none", ok |-> FALSE, current_time_ns |-> 0]

NoTeardown == [creds |-> 0, sign |-> 0]

\* mutant: the string a token already holds is left alone
destroyed_with_none(tok) == 0

\* if (token->token != NULL) aws_string_destroy(token->token): strings destroyed
destroyed_with(tok) == IF tok # NULL THEN 1 ELSE 0

NoStrings == [created |-> 0, destroyed |-> 0]

aws_dsql_auth_token_get_str_empty(tok) == IF tok = NULL THEN <<>> ELSE c_str(tok)

\* aws_dsql_auth_token_get_str: NULL for a token that holds no string, the
\* C string of the one it holds otherwise
aws_dsql_auth_token_get_str(tok) == IF tok = NULL THEN NULL ELSE c_str(tok)

\* the record of the latest generate call that succeeded, taken when a later
\* call starts
NoPrevious ==
    [made |-> FALSE, is_admin |-> FALSE, current_time_ns |-> 0,
     signing_result |-> NULL, path |-> <<>>, token |-> NULL]

LastCall ==
    [made |-> TRUE, is_admin |-> is_admin, current_time_ns |-> clock.current_time_ns,
     signing_result |-> signing_cb.result, path |-> request.path, token |-> token]

\* mutant: a lock that is taken whoever holds the mutex
aws_mutex_lock_acquires_always(mutex) == TRUE

\* aws_mutex_lock returns once no thread holds the mutex
aws_mutex_lock_acquires(mutex) == mutex = "none"

\* mutant: a failed assembly leaves the token object empty
token_after_failure_cleared(tok) == NULL

\* if (result != AWS_OP_SUCCESS) return result: token->token is not written
token_after_failure(tok) == tok

\* mutant: the signable is never destroyed
aws_signable_destroy_never(s) == s

\* aws_signable_destroy: a live signable is destroyed; destroying one that is
\* not live is recorded as such
aws_signable_destroy(s) == IF s = "live" THEN "destroyed" ELSE "destroyed_not_live"

\* aws_http_message_release of the one reference generate holds: a live request
\* is released; releasing one that is not live is recorded as such
aws_http_message_release(req) ==
    [req EXCEPT !.state = IF @ = "live" THEN "released" ELSE "released_not_live"]

\* struct dsql_token_ctx ctx = {.allocator = allocator}
ZeroCtx == [hostname |-> NULL, region |-> NULL, expires_in |-> 0, admin |-> FALSE]

\* the dsql-token process before main runs: nothing parsed, nothing written
NoCli ==
    [pc |-> "not_started", argv |-> <<>>, optind |-> 1, ctx |-> ZeroCtx,
     result |-> AWS_OP_ERR, stdout |-> <<>>, stderr |-> <<>>, exit_code |-> 0,
     inferences |-> 0, providers |-> 0, generates |-> 0]

----------------------------------------------------------------------------
(* Inputs of token generation and the initial states.                      *)

MaxCalls == 2

StrPeccyHost ==
    <<"p", "e", "c", "c", "y">> \o DSQL_HOSTNAME_SUFFIX \o StrUsEast1 \o DSQL_HOSTNAME_END
StrInferableHost ==
    Pad(CLUSTER_ID_LENGTH) \o DSQL_HOSTNAME_SUFFIX \o StrUsEast1 \o DSQL_HOSTNAME_END
StrRegionSet == <<"e", "u">>
StrSignature == <<"X", "-", "A", "m", "z", "-", "S", "i", "g", "n", "a", "t", "u", "r", "e", "=", "s">>

Provider == <<"credentials_provider">>
Credentials == <<"credentials">>
MockClock == <<"mock_aws_get_system_time">>
RequestHandle == <<"request">>

\* what the external operations may deliver
AWS_ERROR_UNKNOWN == 3
ExternalErrors == {AWS_ERROR_UNKNOWN}
ClockReadings == {1999999, 2000000}
CredentialsResults == {NULL, Credentials}
SigningResults == {NULL, StrSignature}
ErrorCodes == {AWS_ERROR_SUCCESS} \cup ExternalErrors

OtherProvider == <<"other_credentials_provider">>
Providers == {Provider, OtherProvider}

\* no call on the config has been counted, no clean_up made; each provider is
\* live with the one reference of the caller that created it
NoProviderRefs ==
    [acquired |-> [p \in Providers |-> 0], released |-> [p \in Providers |-> 0],
     count |-> [p \in Providers |-> 1], owned |-> [p \in Providers |-> 1],
     destroyed |-> {}, same |-> NULL, clean_ups |-> 0]

\* threads that call generate at the same time, and the two bridges of a call
Callers == {"first", "second"}
Bridges == {"creds", "sign"}

\* a bridge structure that has not been set up
NoBridge ==
    [init |-> "none", mutex |-> "none", condition_var |-> "idle",
     value |-> NULL, error_code |-> 0, is_complete |-> FALSE]

NoCompletion == [pc |-> "none", userdata |-> NULL, value |-> NULL, error_code |-> 0]

NoThread ==
    [pc |-> "idle", stage |-> "creds", bridge |-> [b \in Bridges |-> NoBridge],
     credentials |-> NULL, path |-> <<>>, ret |-> AWS_OP_SUCCESS, token |-> NULL]

\* the locals of a generate call before the call has set them
LocalsInit ==
    /\ provider_refs = NoProviderRefs
    /\ config_ops = 0
    /\ thread = [c \in Callers |-> NoThread]
    /\ completion = [c \in Callers |-> [b \in Bridges |-> NoCompletion]]
    /\ str = UNINIT
    /\ cli = NoCli
    /\ is_admin = FALSE
    /\ date_time = 0
    /\ credentials = NULL
    /\ cred_refs = 0
    /\ request = NoRequest
    /\ result = AWS_OP_SUCCESS
    /\ creds_state = ZeroCredsState("none")
    /\ creds_cb = NoCredsCallback
    /\ signable = "none"
    /\ signing_config = NoSigningConfig
    /\ context = ZeroContext("none")
    /\ signing_cb = NoSigningCallback
    /\ resolve_calls = 0
    /\ sign_calls = 0
    /\ waited = [creds |-> "none", sign |-> "none"]
    /\ torn_down = NoTeardown
    /\ clock = NoClock
    /\ previous = NoPrevious
    /\ strings = NoStrings

InferInit ==
    /\ config \in [credentials_provider : {NULL},
                   hostname : HostnameInputs \cup {NULL},
                   region : {NULL, StrRegionSet},
                   expires_in : {DEFAULT_EXPIRES_IN},
                   system_clock_fn : {NULL}]
    /\ out_region \in {NULL, UNINIT, NOPTR}
    /\ token = NULL
    /\ ret = AWS_OP_SUCCESS
    /\ last_error = AWS_ERROR_SUCCESS
    /\ alloc_failed = FALSE
    /\ pc = "idle"
    /\ calls = 0
    /\ LocalsInit

Init ==
    /\ config \in [credentials_provider : {NULL, Provider},
                   hostname : {NULL, StrPeccyHost, StrInferableHost},
                   region : {NULL, StrUsEast1},
                   expires_in : {0, 450},
                   system_clock_fn : {NULL, MockClock}]
    /\ out_region = NULL
    /\ token = NULL
    /\ ret = AWS_OP_SUCCESS
    /\ last_error = AWS_ERROR_SUCCESS
    /\ alloc_failed = FALSE
    /\ pc = "idle"
    /\ calls = 0
    /\ LocalsInit

\* the configurations of the liveness check: one that passes validation and
\* one that does not
LiveInit ==
    /\ config \in [credentials_provider : {NULL, Provider},
                   hostname : {StrPeccyHost},
                   region : {StrUsEast1},
                   expires_in : {450},
                   system_clock_fn : {MockClock}]
    /\ out_region = NULL
    /\ token = NULL
    /\ ret = AWS_OP_SUCCESS
    /\ last_error = AWS_ERROR_SUCCESS
    /\ alloc_failed = FALSE
    /\ pc = "idle"
    /\ calls = 0
    /\ LocalsInit

----------------------------------------------------------------------------
(* Region inference.                                                       *)

aws_dsql_auth_config_infer_region ==
    /\ pc = "idle"
    /\ \E buffer_ok \in BOOLEAN, string_ok \in BOOLEAN :
         LET r == infer_region(config, out_region, buffer_ok, string_ok)
         IN  /\ out_region' = r.region_str
             /\ ret' = r.ret
             /\ last_error' = IF r.raised THEN r.err ELSE last_error
             /\ alloc_failed' = (r.raised /\ r.err = AWS_ERROR_OOM)
    /\ pc' = "infer_returned"
    /\ UNCHANGED <<outsideVars, traceVars, token, callVars, generateVars, credsVars, signVars, historyVars>>

InferNext == aws_dsql_auth_config_infer_region

InferSpec == InferInit /\ [][InferNext]_vars

----------------------------------------------------------------------------
(* aws_dsql_auth_token_generate: the calling thread.                       *)

\* generate returns r to its caller
Return(r) == ret' = r /\ pc' = "returned"

\* a step that raises an error records it; otherwise aws_last_error() stays
Raise(r) == last_error' = IF r.raised THEN r.err ELSE last_error

\* entry: fresh locals, then s_validate_token_config and the action literal
aws_dsql_auth_token_generate ==
    /\ pc \in {"idle", "returned", "token_cleaned"}
    /\ calls < MaxCalls
    /\ calls' = calls + 1
    /\ \E admin \in BOOLEAN : is_admin' = admin
    /\ date_time' = 0
    /\ credentials' = NULL
    /\ cred_refs' = 0
    /\ request' = NoRequest
    /\ creds_state' = ZeroCredsState("none")
    /\ creds_cb' = NoCredsCallback
    /\ signable' = "none"
    /\ signing_config' = NoSigningConfig
    /\ context' = ZeroContext("none")
    /\ signing_cb' = NoSigningCallback
    /\ resolve_calls' = 0
    /\ sign_calls' = 0
    /\ waited' = [creds |-> "none", sign |-> "none"]
    /\ torn_down' = NoTeardown
    /\ clock' = NoClock
    /\ previous' = IF calls > 0 /\ ret = AWS_OP_SUCCESS THEN LastCall ELSE previous
    /\ LET r == s_validate_token_config(config)
       IN  /\ result' = r.ret
           /\ Raise(r)
           /\ IF r.ret # AWS_OP_SUCCESS
                 THEN Return(r.ret)
                 ELSE pc' = "get_time" /\ UNCHANGED ret
    /\ UNCHANGED <<outsideVars, strings, token, inferVars>>

\* s_get_current_time: the config's clock if set, otherwise the system clock;
\* either may fail
s_get_current_time ==
    /\ pc = "get_time"
    /\ \E ok \in BOOLEAN, current_time_ns \in ClockReadings :
         /\ clock' = [source |-> clock_source(config), ok |-> ok,
                      current_time_ns |-> IF ok THEN current_time_ns ELSE 0]
         /\ IF ok
               THEN /\ date_time' = current_time_ns \div NANOS_PER_MILLI
                    /\ pc' = "creds_init"
                    /\ UNCHANGED <<ret, last_error>>
               ELSE /\ Return(AWS_OP_ERR)
                    /\ \E e \in ExternalErrors : last_error' = e
                    /\ UNCHANGED date_time
    /\ UNCHANGED <<outsideVars, torn_down, previous, strings, token, inferVars, callVars, credentials, cred_refs, request,
                   result, credsVars, signVars, historyVars>>

----------------------------------------------------------------------------
(* s_load_credentials: the calling thread.                                 *)

\* mutant: the teardown leaves the structure as it is
s_aws_credentials_callback_state_clean_up_skipped(state) == state

\* s_aws_credentials_callback_state_clean_up: the structure afterwards
s_aws_credentials_callback_state_clean_up(state) == ZeroCredsState("destroyed")

\* mutant: the teardown releases nothing
released_by_clean_up_none(state) == 0

\* the references it releases
released_by_clean_up(state) == IF state.credentials # NULL THEN 1 ELSE 0

\* mutant: the stored result is never taken for a failure
s_load_credentials_failed_never(state) == FALSE

\* mutant: only the error code is looked at
s_load_credentials_failed_code_only(state) == state.error_code # AWS_ERROR_SUCCESS

\* creds_state.error_code != AWS_ERROR_SUCCESS || !creds_state.credentials
s_load_credentials_failed(state) ==
    state.error_code # AWS_ERROR_SUCCESS \/ state.credentials = NULL

\* creds_state.error_code ? creds_state.error_code : AWS_ERROR_INVALID_STATE
s_load_credentials_error(state) ==
    IF state.error_code # 0 THEN state.error_code ELSE AWS_ERROR_INVALID_STATE

s_aws_credentials_callback_state_init ==
    /\ pc = "creds_init"
    /\ \E ok \in BOOLEAN :
         IF ok
            THEN /\ creds_state' = ZeroCredsState("live")
                 /\ pc' = "creds_get"
                 /\ UNCHANGED <<ret, last_error, result>>
            ELSE /\ creds_state' = ZeroCredsState("none")
                 /\ result' = AWS_OP_ERR
                 /\ Return(AWS_OP_ERR)
                 /\ \E e \in ExternalErrors : last_error' = e
    /\ UNCHANGED <<outsideVars, traceVars, token, inferVars, callVars, date_time, credentials,
                   cred_refs, request, creds_cb, signVars, historyVars>>

\* the trigger: it fails at once, or it runs the callback before it returns,
\* or it returns and the callback runs on another thread
aws_credentials_provider_get_credentials ==
    /\ pc = "creds_get"
    /\ resolve_calls' = resolve_calls + 1
    /\ \/ /\ creds_state' = s_aws_credentials_callback_state_clean_up(creds_state)
          /\ torn_down' = [torn_down EXCEPT !.creds = @ + 1]
          /\ cred_refs' = cred_refs - released_by_clean_up(creds_state)
          /\ result' = AWS_OP_ERR
          /\ Return(AWS_OP_ERR)
          /\ \E e \in ExternalErrors : last_error' = e
          /\ UNCHANGED creds_cb
       \/ /\ \E sync \in BOOLEAN, c \in CredentialsResults, e \in ErrorCodes :
               /\ creds_cb' = [pc |-> "start", sync |-> sync,
                               credentials |-> c, error_code |-> e]
               /\ pc' = IF sync THEN "creds_in_get" ELSE "creds_lock"
          /\ UNCHANGED <<creds_state, torn_down, cred_refs, result, ret, last_error>>
    /\ UNCHANGED <<outsideVars, clock, previous, strings, token, inferVars, callVars, date_time, credentials, request,
                   signVars, sign_calls, waited>>

\* the trigger returns once a callback it runs itself has finished
aws_credentials_provider_get_credentials_return ==
    /\ pc = "creds_in_get"
    /\ creds_cb.pc = "done"
    /\ pc' = "creds_lock"
    /\ UNCHANGED <<outsideVars, traceVars, token, ret, last_error, inferVars, callVars, generateVars,
                   credsVars, signVars, historyVars>>

\* aws_mutex_lock(&creds_state.mutex)
s_load_credentials_lock ==
    /\ pc = "creds_lock"
    /\ aws_mutex_lock_acquires(creds_state.mutex)
    /\ creds_state' = [creds_state EXCEPT !.mutex = "caller"]
    /\ pc' = "creds_check"
    /\ UNCHANGED <<outsideVars, traceVars, token, ret, last_error, inferVars, callVars, generateVars,
                   creds_cb, signVars, historyVars>>

\* if (!is_complete) aws_condition_variable_wait_pred(...): the wait evaluates
\* the predicate before it blocks, and blocking releases the mutex
s_load_credentials_check ==
    /\ pc = "creds_check"
    /\ IF creds_state.is_complete \/ s_is_credentials_complete(creds_state)
          THEN /\ pc' = "creds_unlock"
               /\ waited' = [waited EXCEPT !.creds = "nowait"]
               /\ UNCHANGED creds_state
          ELSE /\ pc' = "creds_wait"
               /\ waited' = [waited EXCEPT !.creds = "waited"]
               /\ creds_state' = [creds_state EXCEPT !.mutex = "none",
                                                     !.condition_var = "waiter"]
    /\ UNCHANGED <<outsideVars, traceVars, token, ret, last_error, inferVars, callVars, generateVars,
                   creds_cb, signVars, resolve_calls, sign_calls>>

\* the wait ends on a notification and takes the mutex again
s_load_credentials_wake ==
    /\ pc = "creds_wait"
    /\ creds_state.condition_var = "signalled"
    /\ creds_state.mutex = "none"
    /\ creds_state' = [creds_state EXCEPT !.mutex = "caller", !.condition_var = "idle"]
    /\ pc' = "creds_woken"
    /\ UNCHANGED <<outsideVars, traceVars, token, ret, last_error, inferVars, callVars, generateVars,
                   creds_cb, signVars, historyVars>>

\* the wait ends with no notification (a spurious wakeup)
s_load_credentials_wake_spurious ==
    /\ pc = "creds_wait"
    /\ creds_state.condition_var = "waiter"
    /\ creds_state.mutex = "none"
    /\ creds_state' = [creds_state EXCEPT !.mutex = "caller", !.condition_var = "idle"]
    /\ pc' = "creds_woken"
    /\ waited' = [waited EXCEPT !.creds = "spurious"]
    /\ UNCHANGED <<outsideVars, traceVars, token, ret, last_error, inferVars, callVars, generateVars,
                   creds_cb, signVars, resolve_calls, sign_calls>>

\* wait_pred evaluates the predicate again after each wakeup
s_load_credentials_woken ==
    /\ pc = "creds_woken"
    /\ IF s_is_credentials_complete(creds_state)
          THEN /\ pc' = "creds_unlock"
               /\ UNCHANGED creds_state
          ELSE /\ pc' = "creds_wait"
               /\ creds_state' = [creds_state EXCEPT !.mutex = "none",
                                                     !.condition_var = "waiter"]
    /\ UNCHANGED <<outsideVars, traceVars, token, ret, last_error, inferVars, callVars, generateVars,
                   creds_cb, signVars, historyVars>>

\* aws_mutex_unlock(&creds_state.mutex)
s_load_credentials_unlock ==
    /\ pc = "creds_unlock"
    /\ creds_state' = [creds_state EXCEPT !.mutex = "none"]
    /\ pc' = "creds_result"
    /\ UNCHANGED <<outsideVars, traceVars, token, ret, last_error, inferVars, callVars, generateVars,
                   creds_cb, signVars, historyVars>>

\* the stored result is read, the bridge is torn down, and generate returns the
\* failure or goes on with the credentials
s_load_credentials_result ==
    /\ pc = "creds_result"
    /\ IF s_load_credentials_failed(creds_state)
          THEN /\ cred_refs' = cred_refs - released_by_clean_up(creds_state)
               /\ last_error' = s_load_credentials_error(creds_state)
               /\ result' = AWS_OP_ERR
               /\ Return(AWS_OP_ERR)
               /\ UNCHANGED credentials
          ELSE /\ credentials' = creds_state.credentials
               /\ result' = AWS_OP_SUCCESS
               /\ pc' = "create_request"
               /\ UNCHANGED <<cred_refs, ret, last_error>>
    /\ creds_state' = s_aws_credentials_callback_state_clean_up(creds_state)
    /\ torn_down' = [torn_down EXCEPT !.creds = @ + 1]
    /\ UNCHANGED <<outsideVars, clock, previous, strings, token, inferVars, callVars, date_time, request, creds_cb,
                   signVars, historyVars>>

----------------------------------------------------------------------------
(* s_on_get_credentials_complete: the thread that completes the resolution. *)

s_on_get_credentials_complete_lock ==
    /\ creds_cb.pc = "start"
    /\ creds_state.mutex = "none"
    /\ creds_state' = [creds_state EXCEPT !.mutex = "callback"]
    /\ creds_cb' = [creds_cb EXCEPT !.pc = "locked"]
    /\ UNCHANGED <<outsideVars, traceVars, token, ret, last_error, pc, inferVars, callVars, generateVars,
                   signVars, historyVars>>

\* state->credentials = credentials; if (credentials) aws_credentials_acquire
s_on_get_credentials_complete_store ==
    /\ creds_cb.pc = "locked"
    /\ creds_state' = [creds_state EXCEPT !.credentials = creds_cb.credentials]
    /\ cred_refs' = cred_refs + (IF creds_cb.credentials # NULL THEN 1 ELSE 0)
    /\ creds_cb' = [creds_cb EXCEPT !.pc = "stored"]
    /\ UNCHANGED <<outsideVars, traceVars, token, ret, last_error, pc, inferVars, callVars, date_time,
                   credentials, request, result, signVars, historyVars>>

\* state->error_code = error_code
s_on_get_credentials_complete_error_code ==
    /\ creds_cb.pc = "stored"
    /\ creds_state' = [creds_state EXCEPT !.error_code = creds_cb.error_code]
    /\ creds_cb' = [creds_cb EXCEPT !.pc = "coded"]
    /\ UNCHANGED <<outsideVars, traceVars, token, ret, last_error, pc, inferVars, callVars, generateVars,
                   signVars, historyVars>>

\* state->is_complete = true
s_on_get_credentials_complete_flag ==
    /\ creds_cb.pc = "coded"
    /\ creds_state' = [creds_state EXCEPT !.is_complete = TRUE]
    /\ creds_cb' = [creds_cb EXCEPT !.pc = "flagged"]
    /\ UNCHANGED <<outsideVars, traceVars, token, ret, last_error, pc, inferVars, callVars, generateVars,
                   signVars, historyVars>>

s_on_get_credentials_complete_notify ==
    /\ creds_cb.pc = "flagged"
    /\ creds_state' = [creds_state EXCEPT
                         !.condition_var = aws_condition_variable_notify_one(@)]
    /\ creds_cb' = [creds_cb EXCEPT !.pc = "notified"]
    /\ UNCHANGED <<outsideVars, traceVars, token, ret, last_error, pc, inferVars, callVars, generateVars,
                   signVars, historyVars>>

s_on_get_credentials_complete_unlock ==
    /\ creds_cb.pc = "notified"
    /\ creds_state' = [creds_state EXCEPT !.mutex = "none"]
    /\ creds_cb' = [creds_cb EXCEPT !.pc = "done"]
    /\ UNCHANGED <<outsideVars, traceVars, token, ret, last_error, pc, inferVars, callVars, generateVars,
                   signVars, historyVars>>

----------------------------------------------------------------------------
(* The request, and s_sign_request: the calling thread.                    *)

\* s_create_http_request; on a failure a request that was created is released,
\* and generate releases the credentials and returns
s_create_http_request_step ==
    /\ pc = "create_request"
    /\ \/ /\ request' = s_create_http_request(select_action(is_admin), config.hostname)
          /\ result' = AWS_OP_SUCCESS
          /\ pc' = "signable_new"
          /\ UNCHANGED <<cred_refs, ret, last_error>>
       \/ /\ \E created \in BOOLEAN :
               request' = [NoRequest EXCEPT !.state = IF created THEN "released" ELSE "none"]
          /\ cred_refs' = cred_refs - 1
          /\ result' = AWS_OP_ERR
          /\ Return(AWS_OP_ERR)
          /\ \E e \in ExternalErrors : last_error' = e
    /\ UNCHANGED <<outsideVars, traceVars, token, inferVars, callVars, date_time, credentials, credsVars,
                   signVars, historyVars>>

\* aws_signable_new_http_request and the signing configuration
aws_signable_new_http_request ==
    /\ pc = "signable_new"
    /\ \/ /\ signable' = "live"
          /\ signing_config' = [region |-> config.region,
                                service |-> SERVICE_NAME,
                                credentials |-> credentials,
                                expiration_in_seconds |-> config.expires_in,
                                date |-> date_time]
          /\ pc' = "sign_init"
          /\ UNCHANGED <<result, last_error>>
       \/ /\ result' = AWS_OP_ERR
          /\ \E e \in ExternalErrors : last_error' = e
          /\ pc' = "sign_failed"
          /\ UNCHANGED <<signable, signing_config>>
    /\ UNCHANGED <<outsideVars, traceVars, token, ret, inferVars, callVars, date_time, credentials,
                   cred_refs, request, credsVars, context, signing_cb, historyVars>>

\* s_aws_signing_userdata_clean_up: the structure afterwards
s_aws_signing_userdata_clean_up(ctx) == ZeroContext("destroyed")

\* mutant: the code is read before the structure is zeroed
s_sign_request_raised_saved(ctx) == ctx.signing_result_code

\* s_aws_signing_userdata_clean_up(&context); ...
\* return aws_raise_error(context.signing_result_code): the code raised is read
\* from the structure the teardown has zeroed
s_sign_request_raised(ctx) == s_aws_signing_userdata_clean_up(ctx).signing_result_code

s_aws_signing_userdata_init ==
    /\ pc = "sign_init"
    /\ \/ /\ context' = [ZeroContext("live") EXCEPT !.request = RequestHandle]
          /\ pc' = "sign_call"
          /\ UNCHANGED <<signable, result, last_error>>
       \/ /\ context' = ZeroContext("none")
          /\ signable' = aws_signable_destroy(signable)
          /\ result' = AWS_OP_ERR
          /\ \E e \in ExternalErrors : last_error' = e
          /\ pc' = "sign_failed"
    /\ UNCHANGED <<outsideVars, traceVars, token, ret, inferVars, callVars, date_time, credentials,
                   cred_refs, request, credsVars, signing_config, signing_cb, historyVars>>

\* the trigger: it fails at once, or it runs the callback before it returns,
\* or it returns and the callback runs on another thread
aws_sign_request_aws ==
    /\ pc = "sign_call"
    /\ sign_calls' = sign_calls + 1
    /\ \/ /\ context' = s_aws_signing_userdata_clean_up(context)
          /\ torn_down' = [torn_down EXCEPT !.sign = @ + 1]
          /\ signable' = aws_signable_destroy(signable)
          /\ result' = AWS_OP_ERR
          /\ \E e \in ExternalErrors : last_error' = e
          /\ pc' = "sign_failed"
          /\ UNCHANGED signing_cb
       \/ /\ \E sync \in BOOLEAN, r \in SigningResults, e \in ErrorCodes :
               /\ r # NULL \/ e # AWS_ERROR_SUCCESS
               /\ signing_cb' = [pc |-> "start", sync |-> sync,
                                 result |-> r, error_code |-> e]
               /\ pc' = IF sync THEN "sign_in_call" ELSE "sign_lock"
          /\ UNCHANGED <<context, torn_down, signable, result, last_error>>
    /\ UNCHANGED <<outsideVars, clock, previous, strings, token, ret, inferVars, callVars, date_time, credentials,
                   cred_refs, request, credsVars, signing_config, resolve_calls, waited>>

aws_sign_request_aws_return ==
    /\ pc = "sign_in_call"
    /\ signing_cb.pc = "done"
    /\ pc' = "sign_lock"
    /\ UNCHANGED <<outsideVars, traceVars, token, ret, last_error, inferVars, callVars, generateVars,
                   credsVars, signVars, historyVars>>

\* aws_mutex_lock(&context.mutex)
s_sign_request_lock ==
    /\ pc = "sign_lock"
    /\ aws_mutex_lock_acquires(context.mutex)
    /\ context' = [context EXCEPT !.mutex = "caller"]
    /\ pc' = "sign_check"
    /\ UNCHANGED <<outsideVars, traceVars, token, ret, last_error, inferVars, callVars, generateVars,
                   credsVars, signable, signing_config, signing_cb, historyVars>>

\* if (!is_signing_complete) aws_condition_variable_wait_pred(...)
s_sign_request_check ==
    /\ pc = "sign_check"
    /\ IF context.is_signing_complete \/ s_is_signing_complete(context)
          THEN /\ pc' = "sign_unlock"
               /\ waited' = [waited EXCEPT !.sign = "nowait"]
               /\ UNCHANGED context
          ELSE /\ pc' = "sign_wait"
               /\ waited' = [waited EXCEPT !.sign = "waited"]
               /\ context' = [context EXCEPT !.mutex = "none", !.condition_var = "waiter"]
    /\ UNCHANGED <<outsideVars, traceVars, token, ret, last_error, inferVars, callVars, generateVars,
                   credsVars, signable, signing_config, signing_cb, resolve_calls,
                   sign_calls>>

s_sign_request_wake ==
    /\ pc = "sign_wait"
    /\ context.condition_var = "signalled"
    /\ context.mutex = "none"
    /\ context' = [context EXCEPT !.mutex = "caller", !.condition_var = "idle"]
    /\ pc' = "sign_woken"
    /\ UNCHANGED <<outsideVars, traceVars, token, ret, last_error, inferVars, callVars, generateVars,
                   credsVars, signable, signing_config, signing_cb, historyVars>>

s_sign_request_wake_spurious ==
    /\ pc = "sign_wait"
    /\ context.condition_var = "waiter"
    /\ context.mutex = "none"
    /\ context' = [context EXCEPT !.mutex = "caller", !.condition_var = "idle"]
    /\ pc' = "sign_woken"
    /\ waited' = [waited EXCEPT !.sign = "spurious"]
    /\ UNCHANGED <<outsideVars, traceVars, token, ret, last_error, inferVars, callVars, generateVars,
                   credsVars, signable, signing_config, signing_cb, resolve_calls,
                   sign_calls>>

s_sign_request_woken ==
    /\ pc = "sign_woken"
    /\ IF s_is_signing_complete(context)
          THEN /\ pc' = "sign_unlock"
               /\ UNCHANGED context
          ELSE /\ pc' = "sign_wait"
               /\ context' = [context EXCEPT !.mutex = "none", !.condition_var = "waiter"]
    /\ UNCHANGED <<outsideVars, traceVars, token, ret, last_error, inferVars, callVars, generateVars,
                   credsVars, signable, signing_config, signing_cb, historyVars>>

\* aws_mutex_unlock(&context.mutex)
s_sign_request_unlock ==
    /\ pc = "sign_unlock"
    /\ context' = [context EXCEPT !.mutex = "none"]
    /\ pc' = "sign_result"
    /\ UNCHANGED <<outsideVars, traceVars, token, ret, last_error, inferVars, callVars, generateVars,
                   credsVars, signable, signing_config, signing_cb, historyVars>>

\* the stored code is read, the bridge is torn down, the signable destroyed
s_sign_request_result ==
    /\ pc = "sign_result"
    /\ IF context.signing_result_code # AWS_ERROR_SUCCESS
          THEN /\ last_error' = s_sign_request_raised(context)
               /\ result' = AWS_OP_ERR
               /\ pc' = "sign_failed"
          ELSE /\ result' = AWS_OP_SUCCESS
               /\ pc' = "create_token"
               /\ UNCHANGED last_error
    /\ context' = s_aws_signing_userdata_clean_up(context)
    /\ torn_down' = [torn_down EXCEPT !.sign = @ + 1]
    /\ signable' = aws_signable_destroy(signable)
    /\ UNCHANGED <<outsideVars, clock, previous, strings, token, ret, inferVars, callVars, date_time, credentials,
                   cred_refs, request, credsVars, signing_config, signing_cb, historyVars>>

\* generate after s_sign_request failed: the request and the credentials are
\* released and the result returned
aws_dsql_auth_token_generate_sign_failed ==
    /\ pc = "sign_failed"
    /\ request' = aws_http_message_release(request)
    /\ cred_refs' = cred_refs - 1
    /\ Return(result)
    /\ UNCHANGED <<outsideVars, traceVars, token, last_error, inferVars, callVars, date_time, credentials,
                   result, credsVars, signVars, historyVars>>

\* s_create_token_string, the releases, and the replacement of the token
s_create_token_string_step ==
    /\ pc = "create_token"
    /\ request' = aws_http_message_release(request)
    /\ cred_refs' = cred_refs - 1
    /\ \/ /\ token' = s_create_token_string(config.hostname, request.path)
          /\ strings' = [created |-> strings.created + 1,
                         destroyed |-> strings.destroyed + destroyed_with(token)]
          /\ result' = AWS_OP_SUCCESS
          /\ Return(AWS_OP_SUCCESS)
          /\ UNCHANGED last_error
       \/ /\ result' = AWS_OP_ERR
          /\ Return(AWS_OP_ERR)
          /\ \E e \in ExternalErrors \cup {AWS_ERROR_OOM} : last_error' = e
          /\ token' = token_after_failure(token)
          /\ UNCHANGED strings
    /\ UNCHANGED <<outsideVars, torn_down, clock, previous, inferVars, callVars, date_time, credentials, credsVars,
                   signVars, historyVars>>

----------------------------------------------------------------------------
(* s_on_signing_complete: the thread that completes the signing.           *)

s_on_signing_complete_lock ==
    /\ signing_cb.pc = "start"
    /\ context.mutex = "none"
    /\ context' = [context EXCEPT !.mutex = "callback"]
    /\ signing_cb' = [signing_cb EXCEPT !.pc = "locked"]
    /\ UNCHANGED <<outsideVars, traceVars, token, ret, last_error, pc, inferVars, callVars, generateVars,
                   credsVars, signable, signing_config, historyVars>>

\* aws_apply_signing_result_to_http_request(context->request, ..., result); it
\* may fail, and its return value is not looked at
s_on_signing_complete_apply ==
    /\ signing_cb.pc = "locked"
    /\ \/ request' = aws_apply_signing_result_to_http_request(request, signing_cb.result)
       \/ request' = request
    /\ signing_cb' = [signing_cb EXCEPT !.pc = "applied"]
    /\ UNCHANGED <<outsideVars, traceVars, token, ret, last_error, pc, inferVars, callVars, date_time,
                   credentials, cred_refs, result, credsVars, signable, signing_config,
                   context, historyVars>>

\* context->signing_result_code = error_code
s_on_signing_complete_result_code ==
    /\ signing_cb.pc = "applied"
    /\ context' = [context EXCEPT !.signing_result_code = signing_cb.error_code]
    /\ signing_cb' = [signing_cb EXCEPT !.pc = "coded"]
    /\ UNCHANGED <<outsideVars, traceVars, token, ret, last_error, pc, inferVars, callVars, generateVars,
                   credsVars, signable, signing_config, historyVars>>

\* context->is_signing_complete = true
s_on_signing_complete_flag ==
    /\ signing_cb.pc = "coded"
    /\ context' = [context EXCEPT !.is_signing_complete = TRUE]
    /\ signing_cb' = [signing_cb EXCEPT !.pc = "flagged"]
    /\ UNCHANGED <<outsideVars, traceVars, token, ret, last_error, pc, inferVars, callVars, generateVars,
                   credsVars, signable, signing_config, historyVars>>

s_on_signing_complete_notify ==
    /\ signing_cb.pc = "flagged"
    /\ context' = [context EXCEPT !.condition_var = aws_condition_variable_notify_one(@)]
    /\ signing_cb' = [signing_cb EXCEPT !.pc = "notified"]
    /\ UNCHANGED <<outsideVars, traceVars, token, ret, last_error, pc, inferVars, callVars, generateVars,
                   credsVars, signable, signing_config, historyVars>>

s_on_signing_complete_unlock ==
    /\ signing_cb.pc = "notified"
    /\ context' = [context EXCEPT !.mutex = "none"]
    /\ signing_cb' = [signing_cb EXCEPT !.pc = "done"]
    /\ UNCHANGED <<outsideVars, traceVars, token, ret, last_error, pc, inferVars, callVars, generateVars,
                   credsVars, signable, signing_config, historyVars>>


----------------------------------------------------------------------------
(* The config: init, the setters and clean_up.                             *)

MaxConfigOps == 4

\* AWS_ZERO_STRUCT(*config)
ZeroConfig ==
    [credentials_provider |-> NULL, hostname |-> NULL, region |-> NULL,
     expires_in |-> 0, system_clock_fn |-> NULL]

\* mutant: the structure is left as it is
AWS_ZERO_STRUCT_skipped(cfg) == cfg

\* AWS_ZERO_STRUCT(*config) at the end of clean_up
AWS_ZERO_STRUCT(cfg) == ZeroConfig

\* mutant: the provider the config holds is not released
released_provider_none(cfg) == {}

\* if (config->credentials_provider) aws_credentials_provider_release(...)
released_provider(cfg) ==
    IF cfg.credentials_provider # NULL THEN {cfg.credentials_provider} ELSE {}

\* if (credentials_provider) aws_credentials_provider_acquire(...)
acquired_provider(credentials_provider) ==
    IF credentials_provider # NULL THEN {credentials_provider} ELSE {}

Count(refs, ps) == [p \in Providers |-> refs[p] + (IF p \in ps THEN 1 ELSE 0)]

\* aws_credentials_provider_release: the reference count of each provider in
\* ps goes down by one
ref_count_released(count, ps) ==
    [p \in Providers |-> IF p \in ps /\ count[p] > 0 THEN count[p] - 1 ELSE count[p]]

\* the providers a release destroys: those whose count it takes to zero
destroyed_by_release(count, ps) == {p \in ps : ref_count_released(count, ps)[p] = 0}

\* the memory of a config before init: anything
ConfigInit ==
    /\ config \in [credentials_provider : {NULL, OtherProvider},
                   hostname : {NULL, StrPeccyHost},
                   region : {NULL},
                   expires_in : {0, 450},
                   system_clock_fn : {NULL}]
    /\ out_region = NULL
    /\ token = NULL
    /\ ret = AWS_OP_SUCCESS
    /\ last_error = AWS_ERROR_SUCCESS
    /\ alloc_failed = FALSE
    /\ pc = "config_uninit"
    /\ calls = 0
    /\ LocalsInit

ConfigUnchanged ==
    UNCHANGED <<traceVars, token, last_error, inferVars, callVars, generateVars,
                credsVars, signVars, historyVars>>

aws_dsql_auth_config_init ==
    /\ pc = "config_uninit"
    /\ config' = [ZeroConfig EXCEPT !.expires_in = DEFAULT_EXPIRES_IN]
    /\ ret' = AWS_OP_SUCCESS
    /\ pc' = "idle"
    /\ UNCHANGED <<provider_refs, config_ops, thread, completion, clientVars>>
    /\ ConfigUnchanged

aws_dsql_auth_config_clean_up ==
    /\ pc = "idle"
    /\ config_ops < MaxConfigOps
    /\ config_ops' = config_ops + 1
    /\ provider_refs' =
         [provider_refs EXCEPT
            !.released = Count(@, released_provider(config)),
            !.count = ref_count_released(@, released_provider(config)),
            !.destroyed = @ \cup destroyed_by_release(provider_refs.count,
                                                      released_provider(config)),
            !.same = NULL,
            !.clean_ups = @ + 1]
    /\ config' = AWS_ZERO_STRUCT(config)
    /\ UNCHANGED <<ret, pc, thread, completion, clientVars>>
    /\ ConfigUnchanged

aws_dsql_auth_config_set_hostname ==
    /\ pc = "idle"
    /\ config_ops < MaxConfigOps
    /\ config_ops' = config_ops + 1
    /\ \E hostname \in {StrPeccyHost, StrInferableHost} :
         config' = [config EXCEPT !.hostname = hostname]
    /\ UNCHANGED <<provider_refs, ret, pc, thread, completion, clientVars>>
    /\ ConfigUnchanged

aws_dsql_auth_config_set_region ==
    /\ pc = "idle"
    /\ config_ops < MaxConfigOps
    /\ config_ops' = config_ops + 1
    /\ \E region \in {NULL, StrUsEast1} :
         config' = [config EXCEPT !.region = region]
    /\ UNCHANGED <<provider_refs, ret, pc, thread, completion, clientVars>>
    /\ ConfigUnchanged

aws_dsql_auth_config_set_expires_in ==
    /\ pc = "idle"
    /\ config_ops < MaxConfigOps
    /\ config_ops' = config_ops + 1
    /\ \E expires_in \in {0, 450} :
         config' = [config EXCEPT !.expires_in = expires_in]
    /\ UNCHANGED <<provider_refs, ret, pc, thread, completion, clientVars>>
    /\ ConfigUnchanged

\* the caller passes NULL or a provider that is alive.  The provider held is
\* released first; if that destroys the very provider passed in, the acquire
\* that follows is made on freed memory: it may crash, and the count it leaves
\* there is anything
aws_dsql_auth_config_set_credentials_provider ==
    /\ pc = "idle"
    /\ config_ops < MaxConfigOps
    /\ config_ops' = config_ops + 1
    /\ \E credentials_provider \in
            (Providers \ provider_refs.destroyed) \cup {NULL} :
         LET released == released_provider(config)
             after_release == ref_count_released(provider_refs.count, released)
             destroyed == destroyed_by_release(provider_refs.count, released)
             acquired == acquired_provider(credentials_provider)
             counted ==
                 [provider_refs EXCEPT
                    !.acquired = Count(provider_refs.acquired, acquired),
                    !.released = Count(provider_refs.released, released),
                    !.destroyed = @ \cup destroyed,
                    !.same = IF credentials_provider # NULL
                                  /\ credentials_provider = config.credentials_provider
                                THEN credentials_provider ELSE NULL]
         IN  /\ config' = [config EXCEPT !.credentials_provider = credentials_provider]
             /\ IF acquired \cap destroyed = {}
                   THEN /\ provider_refs' = [counted EXCEPT !.count = Count(after_release, acquired)]
                        /\ UNCHANGED pc
                   ELSE \E garbage \in 0..1, crashes \in BOOLEAN :
                          /\ provider_refs' =
                               [counted EXCEPT !.count =
                                  [after_release EXCEPT ![credentials_provider] = garbage]]
                          /\ pc' = IF crashes THEN "crashed" ELSE pc
    /\ UNCHANGED <<ret, thread, completion, clientVars>>
    /\ ConfigUnchanged

\* the caller gives up its own reference on a provider it created
aws_credentials_provider_release ==
    /\ pc = "idle"
    /\ config_ops < MaxConfigOps
    /\ config_ops' = config_ops + 1
    /\ \E p \in Providers \ provider_refs.destroyed :
         /\ provider_refs.owned[p] = 1
         /\ provider_refs' =
              [provider_refs EXCEPT
                 !.owned[p] = 0,
                 !.count = ref_count_released(@, {p}),
                 !.destroyed = @ \cup destroyed_by_release(provider_refs.count, {p})]
    /\ UNCHANGED <<config, ret, pc, thread, completion, clientVars>>
    /\ ConfigUnchanged

ConfigNext ==
    \/ aws_dsql_auth_config_init
    \/ aws_dsql_auth_config_clean_up
    \/ aws_dsql_auth_config_set_hostname
    \/ aws_dsql_auth_config_set_region
    \/ aws_dsql_auth_config_set_expires_in
    \/ aws_dsql_auth_config_set_credentials_provider
    \/ aws_credentials_provider_release

ConfigSpec == ConfigInit /\ [][ConfigNext]_vars

----------------------------------------------------------------------------
(* The token object.                                                       *)

\* aws_dsql_auth_token_clean_up: the string the token holds is destroyed and
\* the structure zeroed
aws_dsql_auth_token_clean_up ==
    /\ pc \in {"idle", "returned", "token_cleaned"}
    /\ strings' = [strings EXCEPT !.destroyed = @ + destroyed_with(token)]
    /\ token' = NULL
    /\ pc' = "token_cleaned"
    /\ UNCHANGED <<outsideVars, torn_down, clock, previous, ret, last_error, inferVars,
                   callVars, generateVars, credsVars, signVars, historyVars>>

\* a call of aws_dsql_auth_token_get_str on the token object, between calls
\* of generate and clean_up
aws_dsql_auth_token_get_str_call ==
    /\ pc \in {"idle", "returned", "token_cleaned"}
    /\ str' = aws_dsql_auth_token_get_str(token)
    /\ UNCHANGED <<config, provider_refs, config_ops, thread, completion, cli, traceVars,
                   token, ret, last_error, pc, inferVars, callVars, generateVars,
                   credsVars, signVars, historyVars>>

----------------------------------------------------------------------------
(* Several threads in aws_dsql_auth_token_generate on one config.  Each    *)
(* thread has its own stack frame: the bridge structures creds_state and   *)
(* context, the credentials pointer and the request.  A callback reaches a *)
(* bridge through the userdata pointer its trigger was given.              *)

\* mutant: every trigger is given the address of the same bridge structure
userdata_shared(c, b) == <<"first", b>>

\* &creds_state and &context: the address of the caller's own structure
userdata_of(c, b) == <<c, b>>

\* what the stub of the external operation delivers to the call of c
ResultOf(c, b) == <<b, c>>

\* the result stored in a bridge counts as a failure
bridge_failed(b, bridge) ==
    IF b = "creds"
       THEN bridge.error_code # AWS_ERROR_SUCCESS \/ bridge.value = NULL
       ELSE bridge.error_code # AWS_ERROR_SUCCESS

OthersUnchanged ==
    UNCHANGED <<config, provider_refs, config_ops, clientVars, traceVars, token, ret, last_error, pc,
                inferVars, callVars, generateVars, credsVars, signVars, historyVars>>

\* entry of generate up to s_load_credentials' bridge init
concurrent_generate(c) ==
    /\ thread[c].pc = "idle"
    /\ IF s_validate_token_config(config).ret # AWS_OP_SUCCESS
          THEN thread' = [thread EXCEPT ![c].pc = "returned", ![c].ret = AWS_OP_ERR]
          ELSE thread' = [thread EXCEPT ![c].pc = "trigger",
                                        ![c].stage = "creds",
                                        ![c].bridge["creds"].init = "live"]
    /\ UNCHANGED completion
    /\ OthersUnchanged

\* aws_credentials_provider_get_credentials(..., &creds_state) and
\* aws_sign_request_aws(..., &context): the trigger fails, or the operation
\* is under way and will call back with the userdata
concurrent_trigger(c) ==
    /\ thread[c].pc = "trigger"
    /\ LET b == thread[c].stage
       IN  \/ /\ thread' = [thread EXCEPT ![c].bridge[b] = [NoBridge EXCEPT !.init = "destroyed"],
                                          ![c].pc = "returned",
                                          ![c].ret = AWS_OP_ERR]
              /\ UNCHANGED completion
           \/ /\ \E ok \in BOOLEAN :
                   completion' = [completion EXCEPT ![c][b] =
                       [pc |-> "start",
                        userdata |-> userdata_of(c, b),
                        value |-> IF ok THEN ResultOf(c, b) ELSE NULL,
                        error_code |-> IF ok THEN AWS_ERROR_SUCCESS ELSE AWS_ERROR_UNKNOWN]]
              /\ thread' = [thread EXCEPT ![c].pc = "lock"]
    /\ OthersUnchanged

\* aws_mutex_lock on the caller's own bridge
concurrent_lock(c) ==
    /\ thread[c].pc = "lock"
    /\ LET b == thread[c].stage
       IN  /\ thread[c].bridge[b].mutex = "none"
           /\ thread' = [thread EXCEPT ![c].bridge[b].mutex = "caller", ![c].pc = "check"]
    /\ UNCHANGED completion
    /\ OthersUnchanged

\* the flag test and the predicate wait; after a wakeup the predicate again
concurrent_check(c) ==
    /\ thread[c].pc \in {"check", "woken"}
    /\ LET b == thread[c].stage
       IN  IF thread[c].bridge[b].is_complete
              THEN thread' = [thread EXCEPT ![c].pc = "unlock"]
              ELSE thread' = [thread EXCEPT ![c].pc = "wait",
                                            ![c].bridge[b].mutex = "none",
                                            ![c].bridge[b].condition_var = "waiter"]
    /\ UNCHANGED completion
    /\ OthersUnchanged

\* the wait ends, on a notification or spuriously, and takes the mutex again
concurrent_wake(c) ==
    /\ thread[c].pc = "wait"
    /\ LET b == thread[c].stage
       IN  /\ thread[c].bridge[b].mutex = "none"
           /\ thread[c].bridge[b].condition_var \in {"signalled", "waiter"}
           /\ thread' = [thread EXCEPT ![c].pc = "woken",
                                       ![c].bridge[b].mutex = "caller",
                                       ![c].bridge[b].condition_var = "idle"]
    /\ UNCHANGED completion
    /\ OthersUnchanged

\* aws_mutex_unlock on the caller's own bridge
concurrent_unlock(c) ==
    /\ thread[c].pc = "unlock"
    /\ thread' = [thread EXCEPT ![c].pc = "result",
                                ![c].bridge[thread[c].stage].mutex = "none"]
    /\ UNCHANGED completion
    /\ OthersUnchanged

\* the stored result is read and the bridge torn down; s_load_credentials
\* hands the credentials over and generate builds its request and enters
\* s_sign_request; s_sign_request returns and generate assembles the token
concurrent_result(c) ==
    /\ thread[c].pc = "result"
    /\ LET b == thread[c].stage
           bridge == thread[c].bridge[b]
           torn == [NoBridge EXCEPT !.init = "destroyed"]
       IN  IF bridge_failed(b, bridge)
              THEN thread' = [thread EXCEPT ![c].bridge[b] = torn,
                                            ![c].pc = "returned",
                                            ![c].ret = AWS_OP_ERR]
              ELSE IF b = "creds"
                      THEN thread' = [thread EXCEPT
                              ![c].bridge = [@ EXCEPT !["creds"] = torn,
                                                      !["sign"].init = "live"],
                              ![c].credentials = bridge.value,
                              ![c].path = s_create_http_request(
                                              select_action(FALSE), config.hostname).path,
                              ![c].stage = "sign",
                              ![c].pc = "trigger"]
                      ELSE thread' = [thread EXCEPT
                              ![c].bridge[b] = torn,
                              ![c].token = s_create_token_string(config.hostname,
                                                                 thread[c].path),
                              ![c].pc = "returned",
                              ![c].ret = AWS_OP_SUCCESS]
    /\ UNCHANGED completion
    /\ OthersUnchanged

\* the callback the call of k triggered for bridge b takes the mutex of the
\* structure its userdata points to
concurrent_on_complete_lock(k, b) ==
    /\ completion[k][b].pc = "start"
    /\ LET c == completion[k][b].userdata[1]
           d == completion[k][b].userdata[2]
       IN  /\ thread[c].bridge[d].mutex = "none"
           /\ thread' = [thread EXCEPT ![c].bridge[d].mutex = "callback"]
    /\ completion' = [completion EXCEPT ![k][b].pc = "locked"]
    /\ OthersUnchanged

\* under the mutex: the result (for the signing, applied to context->request),
\* the code, the flag, and the notification
concurrent_on_complete_store(k, b) ==
    /\ completion[k][b].pc = "locked"
    /\ LET c == completion[k][b].userdata[1]
           d == completion[k][b].userdata[2]
           cb == completion[k][b]
       IN  thread' = [thread EXCEPT
              ![c].bridge[d].value = cb.value,
              ![c].bridge[d].error_code = cb.error_code,
              ![c].bridge[d].is_complete = TRUE,
              ![c].bridge[d].condition_var = aws_condition_variable_notify_one(@),
              ![c].path = IF b = "sign"
                             THEN aws_apply_signing_result_to_http_request(
                                      [NoRequest EXCEPT !.path = thread[c].path],
                                      cb.value).path
                             ELSE @]
    /\ completion' = [completion EXCEPT ![k][b].pc = "stored"]
    /\ OthersUnchanged

concurrent_on_complete_unlock(k, b) ==
    /\ completion[k][b].pc = "stored"
    /\ LET c == completion[k][b].userdata[1]
           d == completion[k][b].userdata[2]
       IN  thread' = [thread EXCEPT ![c].bridge[d].mutex = "none"]
    /\ completion' = [completion EXCEPT ![k][b].pc = "done"]
    /\ OthersUnchanged

ConcurrentNext ==
    \/ \E c \in Callers :
         \/ concurrent_generate(c)
         \/ concurrent_trigger(c)
         \/ concurrent_lock(c)
         \/ concurrent_check(c)
         \/ concurrent_wake(c)
         \/ concurrent_unlock(c)
         \/ concurrent_result(c)
    \/ \E k \in Callers, b \in Bridges :
         \/ concurrent_on_complete_lock(k, b)
         \/ concurrent_on_complete_store(k, b)
         \/ concurrent_on_complete_unlock(k, b)

ConcurrentSpec == LiveInit /\ [][ConcurrentNext]_vars
----------------------------------------------------------------------------
(* dsql-token, the command line program.                                   *)

\* most arguments given on a command line
MaxArgs == 3

StrMinus5 == <<"-", "5">>
Str0 == <<"0">>
Str450 == <<"4", "5", "0">>
StrNotANumber == <<"x">>

\* the words of a command line: the options of s_long_options with their
\* arguments, an option that is not in the table, and a word that is no option
Words ==
    {[name |-> "--hostname", arg |-> h] : h \in {StrInferableHost, StrPeccyHost}}
    \cup {[name |-> "--region", arg |-> StrUsEast1]}
    \cup {[name |-> "--expires-in", arg |-> e] : e \in {StrMinus5, Str0, Str450, StrNotANumber}}
    \cup {[name |-> n, arg |-> NULL] : n \in {"--admin", "--help", "--bogus", "stray"}}

ArgvInputs == UNION {[1..n -> Words] : n \in 0..MaxArgs}

\* aws_cli_getopt_long over s_long_options: the val of the option found, -1 at
\* the end of the arguments, '?' for an option that is not in the table, 0x02
\* for a positional argument
aws_cli_getopt_long(argv, optind) ==
    IF optind > Len(argv) THEN "-1"
    ELSE CASE argv[optind].name = "--hostname" -> "h"
           [] argv[optind].name = "--region" -> "r"
           [] argv[optind].name = "--expires-in" -> "e"
           [] argv[optind].name = "--admin" -> "a"
           [] argv[optind].name = "--help" -> "?"
           [] argv[optind].name = "stray" -> "0x02"
           [] OTHER -> "?"

DigitValue(c) ==
    CASE c = "0" -> 0 [] c = "1" -> 1 [] c = "2" -> 2 [] c = "3" -> 3 [] c = "4" -> 4
      [] c = "5" -> 5 [] c = "6" -> 6 [] c = "7" -> 7 [] c = "8" -> 8 [] c = "9" -> 9
      [] OTHER -> -1

\* the value of the decimal digits s begins with, after the digits read so far
RECURSIVE Digits(_, _)
Digits(s, acc) ==
    IF s = <<>> \/ DigitValue(Head(s)) = -1 THEN acc
    ELSE Digits(Tail(s), 10 * acc + DigitValue(Head(s)))

\* strtoll(s, NULL, 10): an optional sign and the digits that follow it, 0 when
\* there are none
strtoll(s) ==
    IF s # <<>> /\ Head(s) = "-" THEN 0 - Digits(Tail(s), 0)
    ELSE IF s # <<>> /\ Head(s) = "+" THEN Digits(Tail(s), 0)
    ELSE Digits(s, 0)

\* s_usage: the usage text on stderr, then exit(exit_code)
s_usage(c, exit_code) ==
    [c EXCEPT !.pc = "exited", !.exit_code = exit_code,
              !.stderr = Append(@, "Usage:")]

\* mutant: the region option is never looked at
region_given_never(ctx) == FALSE

\* if (ctx.region)
region_given(ctx) == ctx.region # NULL

\* main up to s_parse_args: the context zeroed but for the allocator, result
\* set to AWS_OP_ERR, admin and expires_in reset
main ==
    /\ cli.pc = "not_started"
    /\ \E argv \in ArgvInputs :
         cli' = [NoCli EXCEPT !.pc = "parse", !.argv = argv]
    /\ UNCHANGED <<config, provider_refs, config_ops, thread, completion, str,
                   traceVars, token, ret, last_error, pc, inferVars, callVars,
                   generateVars, credsVars, signVars, historyVars>>

\* one turn of the loop of s_parse_args, and what follows the loop; a false
\* return makes main call s_usage(1)
s_parse_args ==
    /\ cli.pc = "parse"
    /\ LET opt == aws_cli_getopt_long(cli.argv, cli.optind)
           aws_cli_optarg == cli.argv[cli.optind].arg
           next == [cli EXCEPT !.optind = @ + 1]
       IN  CASE opt = "-1" ->
                  IF cli.ctx.hostname = NULL
                     THEN cli' = s_usage([cli EXCEPT !.stderr =
                                            Append(@, "Error: --hostname is required")], 1)
                     ELSE cli' = [cli EXCEPT !.pc = "config"]
             [] opt = "h" ->
                  \/ cli' = [next EXCEPT !.ctx.hostname = aws_string_new_from_c_str(aws_cli_optarg)]
                  \/ cli' = s_usage([next EXCEPT !.ctx.hostname = NULL], 1)
             [] opt = "r" ->
                  \/ cli' = [next EXCEPT !.ctx.region = aws_string_new_from_c_str(aws_cli_optarg)]
                  \/ cli' = s_usage([next EXCEPT !.ctx.region = NULL], 1)
             [] opt = "e" ->
                  LET expires == strtoll(aws_cli_optarg)
                  IN  IF expires < 0
                         THEN cli' = s_usage([next EXCEPT !.stderr =
                                 Append(@, "Error: expires-in must be a positive number")], 1)
                         ELSE cli' = [next EXCEPT !.ctx.expires_in = expires]
             [] opt = "a" -> cli' = [next EXCEPT !.ctx.admin = TRUE]
             [] opt = "?" -> cli' = s_usage(next, 0)
             [] OTHER -> cli' = s_usage(next, 1)
    /\ UNCHANGED <<config, provider_refs, config_ops, thread, completion, str,
                   traceVars, token, ret, last_error, pc, inferVars, callVars,
                   generateVars, credsVars, signVars, historyVars>>

\* cleanup: and the return of main
main_cleanup(c) ==
    [c EXCEPT !.pc = "exited",
              !.exit_code = IF c.result = AWS_OP_SUCCESS THEN 0 ELSE 1]

\* main: the config is initialised, the hostname set, the region set or
\* inferred from the hostname, expires_in set if it is positive
main_config ==
    /\ cli.pc = "config"
    /\ LET auth_config == [ZeroConfig EXCEPT !.expires_in = DEFAULT_EXPIRES_IN,
                                             !.hostname = c_str(cli.ctx.hostname)]
           with_expires(cfg) ==
               IF cli.ctx.expires_in > 0
                  THEN [cfg EXCEPT !.expires_in = cli.ctx.expires_in]
                  ELSE cfg
       IN  IF region_given(cli.ctx)
              THEN /\ cli' = [cli EXCEPT !.pc = "provider"]
                   /\ config' = with_expires([auth_config EXCEPT !.region = c_str(cli.ctx.region)])
              ELSE \E buffer_ok \in BOOLEAN, string_ok \in BOOLEAN :
                     LET inferred == s_extract_region_from_hostname(
                                         auth_config.hostname, buffer_ok, string_ok)
                         counted == [cli EXCEPT !.inferences = @ + 1]
                     IN  IF inferred.ret # AWS_OP_SUCCESS
                            THEN /\ cli' = main_cleanup(
                                      [counted EXCEPT !.result = AWS_OP_ERR,
                                                      !.stderr = Append(@, "Error: Failed to infer AWS region from hostname.")])
                                 /\ config' = ZeroConfig
                            ELSE /\ cli' = [counted EXCEPT !.pc = "provider"]
                                 /\ config' = with_expires(
                                      [auth_config EXCEPT !.region = inferred.region_str])
    /\ UNCHANGED <<provider_refs, config_ops, thread, completion, str,
                   traceVars, token, ret, last_error, pc, inferVars, callVars,
                   generateVars, credsVars, signVars, historyVars>>

\* main: the default provider chain is created and stored in the config
main_provider ==
    /\ cli.pc = "provider"
    /\ \E credentials_provider \in {NULL, Provider} :
         LET counted == [cli EXCEPT !.providers = @ + 1]
         IN  IF credentials_provider = NULL
                THEN /\ cli' = main_cleanup(
                          [counted EXCEPT !.stderr = Append(@, "Error: Failed to create credentials provider")])
                     /\ config' = ZeroConfig
                ELSE /\ cli' = [counted EXCEPT !.pc = "generate"]
                     /\ config' = [config EXCEPT !.credentials_provider = credentials_provider]
    /\ UNCHANGED <<provider_refs, config_ops, thread, completion, str,
                   traceVars, token, ret, last_error, pc, inferVars, callVars,
                   generateVars, credsVars, signVars, historyVars>>

\* main: the token is generated and printed, everything is cleaned up and the
\* process returns.  The call of generate is taken as a whole: it fails on a
\* config that misses a field and may fail on any other; when it succeeds the
\* token is the hostname and the signed path.
main_generate ==
    /\ cli.pc = "generate"
    /\ \E outcome \in {AWS_OP_SUCCESS, AWS_OP_ERR} :
         LET counted == [cli EXCEPT !.generates = @ + 1, !.result = outcome]
             signed == aws_apply_signing_result_to_http_request(
                           s_create_http_request(select_action(cli.ctx.admin), config.hostname),
                           StrSignature)
             auth_token == s_create_token_string(config.hostname, signed.path)
         IN  /\ outcome = AWS_OP_SUCCESS => s_validate_token_config(config).ret = AWS_OP_SUCCESS
             /\ IF outcome # AWS_OP_SUCCESS
                   THEN cli' = main_cleanup(
                          [counted EXCEPT !.stderr = Append(@, "Error: Failed to generate auth token")])
                   ELSE cli' = main_cleanup(
                          [counted EXCEPT !.stdout =
                              Append(@, aws_dsql_auth_token_get_str(auth_token))])
    /\ config' = ZeroConfig
    /\ UNCHANGED <<provider_refs, config_ops, thread, completion, str,
                   traceVars, token, ret, last_error, pc, inferVars, callVars,
                   generateVars, credsVars, signVars, historyVars>>

CliInit ==
    /\ config = ZeroConfig
    /\ out_region = NULL
    /\ token = NULL
    /\ ret = AWS_OP_SUCCESS
    /\ last_error = AWS_ERROR_SUCCESS
    /\ alloc_failed = FALSE
    /\ pc = "idle"
    /\ calls = 0
    /\ LocalsInit

CliNext ==
    \/ main
    \/ s_parse_args
    \/ main_config
    \/ main_provider
    \/ main_generate

CliSpec == CliInit /\ [][CliNext]_vars
----------------------------------------------------------------------------
(* The specifications.                                                     *)

\* the steps of the thread that calls generate
Caller ==
    \/ s_get_current_time
    \/ s_aws_credentials_callback_state_init
    \/ aws_credentials_provider_get_credentials
    \/ aws_credentials_provider_get_credentials_return
    \/ s_load_credentials_lock
    \/ s_load_credentials_check
    \/ s_load_credentials_wake
    \/ s_load_credentials_woken
    \/ s_load_credentials_unlock
    \/ s_load_credentials_result
    \/ s_create_http_request_step
    \/ aws_signable_new_http_request
    \/ s_aws_signing_userdata_init
    \/ aws_sign_request_aws
    \/ aws_sign_request_aws_return
    \/ s_sign_request_lock
    \/ s_sign_request_check
    \/ s_sign_request_wake
    \/ s_sign_request_woken
    \/ s_sign_request_unlock
    \/ s_sign_request_result
    \/ aws_dsql_auth_token_generate_sign_failed
    \/ s_create_token_string_step

\* wakeups nothing guarantees
Spurious ==
    \/ s_load_credentials_wake_spurious
    \/ s_sign_request_wake_spurious

s_on_get_credentials_complete ==
    \/ s_on_get_credentials_complete_lock
    \/ s_on_get_credentials_complete_store
    \/ s_on_get_credentials_complete_error_code
    \/ s_on_get_credentials_complete_flag
    \/ s_on_get_credentials_complete_notify
    \/ s_on_get_credentials_complete_unlock

s_on_signing_complete ==
    \/ s_on_signing_complete_lock
    \/ s_on_signing_complete_apply
    \/ s_on_signing_complete_result_code
    \/ s_on_signing_complete_flag
    \/ s_on_signing_complete_notify
    \/ s_on_signing_complete_unlock

Next ==
    \/ aws_dsql_auth_token_generate
    \/ Caller
    \/ Spurious
    \/ s_on_get_credentials_complete
    \/ s_on_signing_complete

Spec == Init /\ [][Next]_vars

\* Fair scheduling: a thread that can take a step takes one, and a completion
\* callback that finds the mutex free again and again takes it.  A spurious
\* wakeup is never owed.
Fairness ==
    /\ WF_vars(Caller)
    /\ SF_vars(s_on_get_credentials_complete)
    /\ SF_vars(s_on_signing_complete)

\* one generate call, followed to its return
FirstCall == pc = "idle" /\ aws_dsql_auth_token_generate

LiveNext ==
    \/ FirstCall
    \/ Caller
    \/ Spurious
    \/ s_on_get_credentials_complete
    \/ s_on_signing_complete

LiveSpec == LiveInit /\ [][LiveNext]_vars /\ Fairness


\* generate calls on one token object, and its clean_up between and after them
TokenNext ==
    \/ Next
    \/ aws_dsql_auth_token_clean_up

TokenSpec == LiveInit /\ [][TokenNext]_vars

\* generate, clean_up and get_str on one token object
StrNext ==
    \/ TokenNext
    \/ aws_dsql_auth_token_get_str_call

StrSpec == LiveInit /\ [][StrNext]_vars

\* a config set up, changed and cleaned up, and then one generate call on it
ConfigCallNext ==
    \/ ConfigNext
    \/ LiveNext

ConfigCallSpec == ConfigInit /\ [][ConfigCallNext]_vars
----------------------------------------------------------------------------
(* Region inference: the format as the claims state it.                    *)

\* h is <26 characters>.dsql.<region>.on.aws with a non-empty region
WellFormed(h) ==
    /\ h # NULL
    /\ Len(h) >= CLUSTER_ID_LENGTH + 6 + 1 + 7
    /\ SubSeq(h, CLUSTER_ID_LENGTH + 1, CLUSTER_ID_LENGTH + 6) = DSQL_HOSTNAME_SUFFIX
    /\ SubSeq(h, Len(h) - 6, Len(h)) = DSQL_HOSTNAME_END

\* the characters between the ".dsql." at offset 26 and the trailing ".on.aws"
RegionOf(h) == SubSeq(h, CLUSTER_ID_LENGTH + 7, Len(h) - 7)

\* no ".dsql." begins inside the cluster id
NoEarlierDsql(h) ==
    \A i \in 0..(CLUSTER_ID_LENGTH - 1) : ~OccursAt(h, DSQL_HOSTNAME_SUFFIX, i)

InferReturned == pc = "infer_returned" /\ out_region # NOPTR /\ ~alloc_failed

\* C4 as stated: every hostname of the form <26-character cluster id>.dsql.
\* <region>.on.aws with a non-empty region is accepted and yields exactly
\* <region> (read for calls with a valid out pointer in which no allocation
\* fails).  The code refuses the ones whose cluster id holds a ".dsql.".
C4_EveryWellFormedAccepted ==
    (InferReturned /\ WellFormed(config.hostname))
        => (ret = AWS_OP_SUCCESS /\ out_region = RegionOf(config.hostname))

\* C4 amended: a hostname of that form in which no ".dsql." begins before
\* offset 26 is accepted and yields exactly <region>, given a valid out
\* pointer and no allocation failure.
C4_WellFormedAccepted ==
    (InferReturned /\ WellFormed(config.hostname) /\ NoEarlierDsql(config.hostname))
        => (ret = AWS_OP_SUCCESS /\ out_region = RegionOf(config.hostname))

C4_Witness ==
    /\ InferReturned
    /\ config.hostname = Pad(CLUSTER_ID_LENGTH) \o DSQL_HOSTNAME_SUFFIX
                             \o StrUsEast1 \o DSQL_HOSTNAME_END
    /\ ret = AWS_OP_SUCCESS
    /\ out_region = StrUsEast1

\* C5: for a hostname that misses the format (cluster id not 26 characters,
\* no ".dsql." at offset 26, no trailing ".on.aws", empty region) the inference
\* fails with AWS_ERROR_INVALID_ARGUMENT, leaves *out_region NULL and leaves
\* the config as it was.
C5_MalformedRejected ==
    [][(/\ pc = "idle" /\ pc' = "infer_returned"
        /\ config.hostname # NULL /\ out_region # NOPTR
        /\ ~WellFormed(config.hostname))
       => (/\ ret' = AWS_OP_ERR
           /\ last_error' = AWS_ERROR_INVALID_ARGUMENT
           /\ out_region' = NULL
           /\ config' = config)]_vars

\* a hostname long enough to pass the length check, with ".dsql." at offset
\* 26 and a region, refused for its ending
C5_Witness ==
    /\ pc = "infer_returned"
    /\ config.hostname = Pad(CLUSTER_ID_LENGTH) \o DSQL_HOSTNAME_SUFFIX
                             \o StrUsEast1 \o StrWrongEnd
    /\ ret = AWS_OP_ERR
    /\ last_error = AWS_ERROR_INVALID_ARGUMENT
    /\ out_region = NULL


\* C22: a successful inference sets the inferred region in the config; a
\* hostname that misses the format leaves the config's region as it was.
C22_RegionSetInConfig ==
    /\ (pc = "infer_returned" /\ ret = AWS_OP_SUCCESS) => config.region = out_region
    /\ (pc = "infer_returned" /\ ret = AWS_OP_ERR) => config.region \in {NULL, StrRegionSet}

\* the first ".dsql." of h begins at offset i
FirstDsqlAt(h, i) ==
    /\ OccursAt(h, DSQL_HOSTNAME_SUFFIX, i)
    /\ \A j \in 0..(i - 1) : ~OccursAt(h, DSQL_HOSTNAME_SUFFIX, j)

EndsWithOnAws(h) ==
    SubSeq(h, Len(h) - Len(DSQL_HOSTNAME_END) + 1, Len(h)) = DSQL_HOSTNAME_END

\* C27: a hostname of at least 40 characters is accepted if and only if its
\* first ".dsql." begins at offset 26 and it ends with ".on.aws"; the region
\* is then everything from offset 32 up to the last 7 characters, whatever it
\* holds; a hostname whose first ".dsql." begins elsewhere is refused even if
\* another one begins at offset 26 (read for calls with a valid out pointer
\* in which no allocation fails).
C27_FirstDsqlDecides ==
    (InferReturned /\ config.hostname # NULL
        /\ Len(config.hostname) >= MIN_HOSTNAME_LENGTH)
        => /\ ret = AWS_OP_SUCCESS
                <=> (/\ FirstDsqlAt(config.hostname, CLUSTER_ID_LENGTH)
                     /\ EndsWithOnAws(config.hostname))
           /\ ret = AWS_OP_SUCCESS
                => out_region = SubSeq(config.hostname, CLUSTER_ID_LENGTH + 7,
                                       Len(config.hostname) - 7)
           /\ (/\ OccursAt(config.hostname, DSQL_HOSTNAME_SUFFIX, CLUSTER_ID_LENGTH)
               /\ ~FirstDsqlAt(config.hostname, CLUSTER_ID_LENGTH))
                => ret = AWS_OP_ERR /\ out_region = NULL

\* a hostname whose region is itself ".dsql." is accepted with that region
C27_Witness ==
    /\ InferReturned
    /\ config.hostname = Pad(CLUSTER_ID_LENGTH) \o DSQL_HOSTNAME_SUFFIX
                             \o DSQL_HOSTNAME_SUFFIX \o DSQL_HOSTNAME_END
    /\ ret = AWS_OP_SUCCESS
    /\ out_region = DSQL_HOSTNAME_SUFFIX
----------------------------------------------------------------------------
(* Token generation: validation, the request and the token.                *)

StrDbConnectPath ==
    <<"/", "?", "A", "c", "t", "i", "o", "n", "=",
      "D", "b", "C", "o", "n", "n", "e", "c", "t">>
StrDbConnectAdminPath ==
    <<"/", "?", "A", "c", "t", "i", "o", "n", "=",
      "D", "b", "C", "o", "n", "n", "e", "c", "t", "A", "d", "m", "i", "n">>

ExpectedPath(admin) == IF admin THEN StrDbConnectAdminPath ELSE StrDbConnectPath

IsPrefix(p, s) == Len(p) <= Len(s) /\ SubSeq(s, 1, Len(p)) = p

MissingField ==
    \/ config.hostname = NULL
    \/ config.region = NULL
    \/ config.credentials_provider = NULL

GenerateSucceeded == pc = "returned" /\ calls > 0 /\ ret = AWS_OP_SUCCESS

\* C2: after a successful generate the token is the hostname immediately
\* followed by the request's path-and-query as the signer left it, and so
\* begins with <hostname>/?Action=<action>.
C2_TokenIsHostnameThenPath ==
    GenerateSucceeded
        => /\ token = config.hostname \o request.path
           /\ IsPrefix(config.hostname \o ExpectedPath(is_admin), token)

C2_Witness ==
    /\ GenerateSucceeded
    /\ token = StrPeccyHost \o StrDbConnectPath \o <<"&">> \o StrSignature

\* C3: the request handed to the signer has method GET, the single header
\* Host: <hostname>, and the path /?Action=DbConnectAdmin if is_admin and
\* /?Action=DbConnect otherwise.
C3_RequestHandedToSigner ==
    (pc \in {"signable_new", "sign_init", "sign_call"})
        => /\ request.state = "live"
           /\ request.method = <<"G", "E", "T">>
           /\ request.headers = <<[name |-> <<"H", "o", "s", "t">>,
                                   value |-> config.hostname]>>
           /\ request.path = ExpectedPath(is_admin)

C3_Witness ==
    /\ pc = "sign_call"
    /\ is_admin
    /\ request.path = StrDbConnectAdminPath
    /\ request.headers[1].value = StrPeccyHost

----------------------------------------------------------------------------
(* Token generation: the failures of the two bridged operations.           *)

\* C6: when the signer completes with a non-zero error code, s_sign_request
\* fails and the error it raises is the code the signer reported.
C6_SignerErrorRaised ==
    (pc = "sign_failed" /\ signing_cb.pc = "done"
        /\ signing_cb.error_code # AWS_ERROR_SUCCESS)
        => (result = AWS_OP_ERR /\ last_error = signing_cb.error_code)

ResolutionFailed ==
    /\ creds_cb.pc = "done"
    /\ creds_cb.error_code # AWS_ERROR_SUCCESS \/ creds_cb.credentials = NULL

InLoadCredentials ==
    pc \in {"creds_in_get", "creds_lock", "creds_check", "creds_wait",
            "creds_woken", "creds_unlock", "creds_result"}

\* C7: when the resolution completes with an error code or with no
\* credentials, s_load_credentials fails, hands over no credentials, raises the
\* code if there is one and AWS_ERROR_INVALID_STATE otherwise, and the signing
\* is never triggered in that call.
C7_ResolutionFailureRaised ==
    (ResolutionFailed /\ ~InLoadCredentials)
        => /\ pc = "returned"
           /\ ret = AWS_OP_ERR
           /\ credentials = NULL
           /\ last_error = (IF creds_cb.error_code # AWS_ERROR_SUCCESS
                               THEN creds_cb.error_code
                               ELSE AWS_ERROR_INVALID_STATE)
           /\ sign_calls = 0 /\ signing_cb.pc = "none"
           /\ signable = "none"

\* the resolution delivered neither an error nor credentials
C7_Witness ==
    /\ pc = "returned"
    /\ creds_cb.pc = "done"
    /\ creds_cb.error_code = AWS_ERROR_SUCCESS
    /\ creds_cb.credentials = NULL
    /\ ret = AWS_OP_ERR
    /\ last_error = AWS_ERROR_INVALID_STATE

----------------------------------------------------------------------------
(* The two bridges.                                                        *)

\* C8: past the wait the caller finds the completed flag set, the callback
\* has made all its writes and released the mutex, and what the caller reads
\* is what the callback was given.
C8_ReadsAfterCompletion ==
    /\ (pc \in {"creds_unlock", "creds_result"})
          => /\ creds_state.is_complete
             /\ creds_cb.pc = "done"
             /\ creds_state.credentials = creds_cb.credentials
             /\ creds_state.error_code = creds_cb.error_code
    /\ (pc \in {"sign_unlock", "sign_result"})
          => /\ context.is_signing_complete
             /\ signing_cb.pc = "done"
             /\ context.signing_result_code = signing_cb.error_code

\* both waits of one call blocked, and the signing result is about to be read
C8_Witness ==
    /\ pc = "sign_result"
    /\ waited = [creds |-> "waited", sign |-> "waited"]
    /\ context.signing_result_code # AWS_ERROR_SUCCESS

\* C9: however the callback interleaves with the caller (run inside the
\* trigger, finished before the caller locks, run while the caller waits,
\* spurious wakeups), the caller gets past the wait once the operation has
\* been triggered, and only with the completed flag set.
C9_WaitEndsWithCompletion ==
    /\ (creds_cb.pc = "start") ~> (pc = "creds_unlock")
    /\ (signing_cb.pc = "start") ~> (pc = "sign_unlock")
    /\ [](pc = "creds_unlock" => creds_state.is_complete)
    /\ [](pc = "sign_unlock" => context.is_signing_complete)

\* the first wait saw a spurious wakeup; the signing callback ran inside the
\* trigger and the second wait did not block
C9_Witness ==
    /\ pc = "sign_unlock"
    /\ waited = [creds |-> "spurious", sign |-> "nowait"]
    /\ signing_cb.sync

\* C10: every generate call returns, and not before every callback that was
\* triggered has finished.
C10_GenerateReturns ==
    /\ (calls > 0) ~> (pc = "returned")
    /\ [](pc = "returned" => /\ creds_cb.pc \in {"none", "done"}
                             /\ signing_cb.pc \in {"none", "done"})

\* a call that blocked in the signing wait has returned a token
C10_Witness ==
    /\ pc = "returned"
    /\ calls > 0
    /\ waited.sign = "waited"
    /\ ~signing_cb.sync
    /\ ret = AWS_OP_SUCCESS

----------------------------------------------------------------------------
(* Teardown, order and retries.                                            *)

InSignRequest ==
    pc \in {"sign_call", "sign_in_call", "sign_lock", "sign_check", "sign_wait",
            "sign_woken", "sign_unlock", "sign_result"}

\* C11: when the trigger of either operation fails, the bridge is torn down,
\* the caller does not wait and the step fails; on every path a bridge that
\* was set up is torn down exactly once before its step returns.
C11_BridgeTornDownOnce ==
    /\ (resolve_calls = 1 /\ creds_cb.pc = "none")
          => /\ pc = "returned" /\ ret = AWS_OP_ERR
             /\ creds_state.init = "destroyed" /\ torn_down.creds = 1
             /\ waited.creds = "none"
    /\ (sign_calls = 1 /\ signing_cb.pc = "none")
          => /\ pc \in {"sign_failed", "returned"} /\ result = AWS_OP_ERR
             /\ context.init = "destroyed" /\ torn_down.sign = 1
             /\ waited.sign = "none"
    /\ creds_state.init = "live"
          => (pc = "creds_get" \/ InLoadCredentials) /\ torn_down.creds = 0
    /\ context.init = "live" => InSignRequest /\ torn_down.sign = 0
    /\ creds_state.init = "destroyed" => torn_down.creds = 1
    /\ context.init = "destroyed" => torn_down.sign = 1
    /\ creds_state.init = "none" => torn_down.creds = 0
    /\ context.init = "none" => torn_down.sign = 0

\* the resolution went through its wait, the signing trigger failed
C11_Witness ==
    /\ pc = "sign_failed"
    /\ sign_calls = 1 /\ signing_cb.pc = "none"
    /\ waited = [creds |-> "waited", sign |-> "none"]
    /\ torn_down = [creds |-> 1, sign |-> 1]

\* the step of generate the calling thread is in
StepOf(p) ==
    CASE p \in {"idle", "infer_returned"} -> 0
      [] p = "get_time" -> 1
      [] p \in {"creds_init", "creds_get", "creds_in_get", "creds_lock", "creds_check",
                "creds_wait", "creds_woken", "creds_unlock", "creds_result"} -> 2
      [] p = "create_request" -> 3
      [] p \in {"signable_new", "sign_init", "sign_call", "sign_in_call", "sign_lock",
                "sign_check", "sign_wait", "sign_woken", "sign_unlock", "sign_result",
                "sign_failed"} -> 4
      [] p = "create_token" -> 5
      [] p \in {"returned", "token_cleaned"} -> 6

\* C12: within a call the steps come in the order validate, clock, resolve,
\* request, sign, assemble; signing is triggered only after the resolution has
\* completed with success; the caller blocks in the resolution wait and then
\* in the signing wait and nowhere else, and never in both.
C12_StepsInOrder ==
    /\ [][calls' = calls => StepOf(pc') >= StepOf(pc)]_vars
    /\ []((sign_calls > 0 \/ StepOf(pc) \in {3, 4, 5})
            => /\ resolve_calls = 1
               /\ creds_cb.pc = "done"
               /\ creds_cb.error_code = AWS_ERROR_SUCCESS
               /\ credentials = Credentials
               /\ creds_state.init = "destroyed"
               /\ date_time = clock.current_time_ns \div 1000000)
    /\ [](pc = "creds_wait" => sign_calls = 0 /\ signing_cb.pc = "none")
    /\ [](waited.sign # "none" => waited.creds # "none" /\ StepOf(pc) >= 4)
    /\ [](StepOf(pc) = 5 => /\ signing_cb.pc = "done"
                            /\ signing_cb.error_code = AWS_ERROR_SUCCESS
                            /\ request.state = "live")

\* both waits of the call blocked, one after the other
C12_Witness ==
    /\ pc = "sign_wait"
    /\ waited = [creds |-> "waited", sign |-> "waited"]
    /\ creds_cb.pc = "done"
    /\ signing_cb.pc = "start"

\* C13: a call triggers the credential resolution at most once and the
\* signing at most once, each only while no step of the call has failed; a
\* failed step is followed by the return of an error and by no further trigger.
C13_NoRetry ==
    /\ [](resolve_calls <= 1 /\ sign_calls <= 1)
    /\ [][resolve_calls' > resolve_calls
             => /\ resolve_calls = 0 /\ sign_calls = 0
                /\ ~MissingField
                /\ clock.ok
                /\ result = AWS_OP_SUCCESS]_vars
    /\ [][sign_calls' > sign_calls
             => /\ resolve_calls = 1 /\ sign_calls = 0
                /\ ~ResolutionFailed
                /\ request.state = "live" /\ signable = "live"
                /\ context.init = "live"
                /\ result = AWS_OP_SUCCESS]_vars
    /\ []((calls > 0 /\ result = AWS_OP_ERR) => pc \in {"sign_failed", "returned"})
    /\ [][pc = "sign_failed"
             => /\ pc' = "returned" /\ ret' = AWS_OP_ERR
                /\ resolve_calls' = resolve_calls /\ sign_calls' = sign_calls]_vars
    /\ [][(pc = "returned" /\ calls' = calls)
             => resolve_calls' = resolve_calls /\ sign_calls' = sign_calls]_vars

\* the signing failed after both operations were triggered once
C13_Witness ==
    /\ pc = "returned"
    /\ ret = AWS_OP_ERR
    /\ resolve_calls = 1 /\ sign_calls = 1
    /\ signing_cb.pc = "done"
    /\ signing_cb.error_code # AWS_ERROR_SUCCESS

----------------------------------------------------------------------------
(* References and strings.                                                 *)

\* C14: the references generate acquires on the resolved credentials are
\* never released more often than acquired, and on every exit path all of
\* them have been released, so the count is what it was before the call.
C14_CredentialsReleased ==
    /\ cred_refs \in {0, 1}
    /\ pc = "returned" => cred_refs = 0
    /\ cred_refs = 1
          => /\ creds_cb.credentials = Credentials
             /\ creds_cb.pc \in {"stored", "coded", "flagged", "notified", "done"}
             /\ creds_state.credentials = Credentials \/ credentials = Credentials

\* the resolution delivered an error code together with credentials
C14_Witness ==
    /\ pc = "returned"
    /\ creds_cb.pc = "done"
    /\ creds_cb.credentials = Credentials
    /\ creds_cb.error_code # AWS_ERROR_SUCCESS
    /\ credentials = NULL
    /\ cred_refs = 0

\* references the config holds on provider p
Held(p) == provider_refs.acquired[p] - provider_refs.released[p]

----------------------------------------------------------------------------
(* What the signer is given.                                               *)

\* C16: the expiration passed to the signer is 900 seconds when the config's
\* expiration is 0 or was never set after init, and the configured value
\* otherwise.
C16_ExpirationPassed ==
    (pc \in {"sign_init", "sign_call"})
        => signing_config.expiration_in_seconds
             = (IF config.expires_in = 0 THEN 900 ELSE config.expires_in)

\* the signer's stub wrote its result into the request
SignerApplied(path, admin) == path # ExpectedPath(admin)

\* the call that has returned and an earlier successful one had the same
\* inputs: the same is_admin, clock value and signer outcome (the config is
\* the same throughout, and both calls were given the credentials)
SameInputs ==
    /\ previous.made
    /\ previous.is_admin = is_admin
    /\ previous.current_time_ns = clock.current_time_ns
    /\ previous.signing_result = signing_cb.result
    /\ SignerApplied(previous.path, previous.is_admin) = SignerApplied(request.path, is_admin)

----------------------------------------------------------------------------
(* The token object.                                                       *)

\* token strings that exist
LiveStrings == strings.created - strings.destroyed

\* C18: a successful generate on a token object that holds a string stores
\* the new string and destroys the old one once; after any number of
\* successful calls and a clean_up every string created has been destroyed
\* once.
C18_TokenStringsDestroyedOnce ==
    /\ [](LiveStrings = (IF token # NULL THEN 1 ELSE 0))
    /\ [](pc = "token_cleaned" => token = NULL /\ strings.destroyed = strings.created)
    /\ [][(pc = "create_token" /\ ret' = AWS_OP_SUCCESS)
             => /\ token' = config.hostname \o request.path
                /\ strings'.created = strings.created + 1
                /\ strings'.destroyed
                     = strings.destroyed + (IF token # NULL THEN 1 ELSE 0)]_vars
    /\ [][(pc = "create_token" /\ ret' # AWS_OP_SUCCESS)
             => token' = token /\ strings' = strings]_vars
    /\ [][pc' = "token_cleaned"
             => /\ strings'.created = strings.created
                /\ strings'.destroyed
                     = strings.destroyed + (IF token # NULL THEN 1 ELSE 0)]_vars

\* two tokens were generated into the same object, which was then cleaned up
C18_Witness ==
    /\ pc = "token_cleaned"
    /\ calls = 2
    /\ token = NULL
    /\ strings = [created |-> 2, destroyed |-> 2]
    /\ previous.made /\ previous.token # NULL

----------------------------------------------------------------------------
(* The clock.                                                              *)

\* C20: when the clock read fails generate returns an error and triggers
\* neither the resolution nor the signing; with system_clock_fn set only that
\* function is read, and the signing date is the value it gave, in
\* milliseconds.
C20_ClockReadOnce ==
    /\ (clock.source # "none" /\ ~clock.ok)
          => /\ pc \in {"returned", "token_cleaned"}
             /\ ret = AWS_OP_ERR
             /\ resolve_calls = 0 /\ creds_cb.pc = "none"
             /\ sign_calls = 0 /\ signing_cb.pc = "none"
    /\ config.system_clock_fn # NULL => clock.source \in {"none", "system_clock_fn"}
    /\ config.system_clock_fn = NULL
          => clock.source \in {"none", "aws_sys_clock_get_ticks"}
    /\ (pc \in {"sign_init", "sign_call"})
          => /\ clock.ok
             /\ signing_config.date = clock.current_time_ns \div 1000000

\* the injected clock gave 1999999 ns, the signing date is 1 ms
C20_Witness ==
    /\ pc = "sign_call"
    /\ config.system_clock_fn = MockClock
    /\ clock = [source |-> "system_clock_fn", ok |-> TRUE, current_time_ns |-> 1999999]
    /\ signing_config.date = 1

----------------------------------------------------------------------------
(* Concurrent calls.                                                       *)

\* the callback the call of c triggered for bridge b has made its writes
OwnCompletionWrote(c, b) == completion[c][b].pc \in {"stored", "done"}

\* C19: with several generate calls running at once on one config, a bridge
\* is locked, written, completed and woken only by the callback its own call
\* triggered, and each call returns what its own resolution and signing
\* delivered.
C19_CallsDoNotInterfere ==
    \A c \in Callers :
      /\ \A b \in Bridges :
           LET bridge == thread[c].bridge[b]
           IN  /\ bridge.mutex = "callback" => completion[c][b].pc \in {"locked", "stored"}
               /\ bridge.is_complete
                     => /\ OwnCompletionWrote(c, b)
                        /\ bridge.value = completion[c][b].value
                        /\ bridge.error_code = completion[c][b].error_code
               /\ bridge.condition_var = "signalled" => OwnCompletionWrote(c, b)
               /\ bridge.init # "live" => bridge.mutex = "none"
               /\ completion[c][b].pc # "none" => completion[c][b].userdata = <<c, b>>
      /\ thread[c].pc \in {"unlock", "result"}
           => completion[c][thread[c].stage].pc = "done"
      /\ thread[c].credentials \in {NULL, <<"creds", c>>}
      /\ (thread[c].stage = "sign" /\ thread[c].pc # "returned")
           => /\ thread[c].credentials = <<"creds", c>>
              /\ thread[c].path \in {StrDbConnectPath,
                                     StrDbConnectPath \o <<"&", "sign", c>>}
      /\ (thread[c].pc = "returned" /\ thread[c].ret = AWS_OP_SUCCESS
            /\ thread[c].stage = "sign")
           => /\ completion[c]["creds"].error_code = AWS_ERROR_SUCCESS
              /\ completion[c]["sign"].error_code = AWS_ERROR_SUCCESS
              /\ thread[c].token
                   = config.hostname \o StrDbConnectPath \o <<"&", "sign", c>>
      /\ (thread[c].pc = "returned" /\ thread[c].ret = AWS_OP_ERR)
           => /\ thread[c].token = NULL
              /\ \/ MissingField
                 \/ completion[c][thread[c].stage].pc = "none"
                 \/ completion[c][thread[c].stage].error_code # AWS_ERROR_SUCCESS

\* the first call has returned its token while the second still waits for
\* its credentials, its callback holding the mutex
C19_Witness ==
    /\ thread["first"].pc = "returned"
    /\ thread["first"].token = StrPeccyHost \o StrDbConnectPath \o <<"&", "sign", "first">>
    /\ thread["second"].pc = "wait"
    /\ thread["second"].stage = "creds"
    /\ thread["second"].bridge["creds"].mutex = "callback"
    /\ completion["second"]["creds"].pc = "locked"

----------------------------------------------------------------------------
(* What the header promises of a NULL provider and of the inference.       *)

\* C21: with credentials_provider NULL (hostname and region set) generate
\* sources the credentials from the default provider chain: the call gets
\* past validation and, the clock read, triggers a resolution.
C21_DefaultChainUsed ==
    (/\ pc = "returned" /\ calls > 0
     /\ config.credentials_provider = NULL
     /\ config.hostname # NULL /\ config.region # NULL)
        => /\ clock.source # "none"
           /\ clock.ok => resolve_calls = 1

----------------------------------------------------------------------------
(* Reading the token.                                                      *)

\* the step of generate that stores a new token string
TokenStored == pc = "create_token" /\ ret' = AWS_OP_SUCCESS

\* C23: aws_dsql_auth_token_get_str returns NULL for the zero-initialized
\* token on which no generate has succeeded and for a token after clean_up;
\* right after a successful generate it returns the generated string, and
\* what it returns changes only when a generate succeeds or clean_up runs, so
\* it returns that string until clean_up.
C23_GetStrFollowsToken ==
    /\ [][aws_dsql_auth_token_get_str_call
            => /\ (strings.created = 0 \/ pc = "token_cleaned") => str' = NULL
               /\ GenerateSucceeded
                    => /\ str' = config.hostname \o request.path
                       /\ str' # NULL]_vars
    /\ [][(~TokenStored /\ pc' # "token_cleaned")
            => aws_dsql_auth_token_get_str(token')
                 = aws_dsql_auth_token_get_str(token)]_vars

\* get_str has returned the string the first call generated, which the token
\* still holds after the second call failed
C23_Witness ==
    /\ pc = "returned"
    /\ calls = 2 /\ ret = AWS_OP_ERR
    /\ strings = [created |-> 1, destroyed |-> 0]
    /\ str = StrPeccyHost \o StrDbConnectPath \o <<"&">> \o StrSignature
    /\ str = token

----------------------------------------------------------------------------
(* The command line program.                                               *)

Exited == cli.pc = "exited"
OptionGiven(name) == \E i \in 1..Len(cli.argv) : cli.argv[i].name = name
TokenPrinted == cli.stdout # <<>>
GenerationSucceeded == cli.generates = 1 /\ cli.result = AWS_OP_SUCCESS

\* C24: a token is written to standard output if and only if the generation
\* succeeded; the exit code is 0 only when a token was printed or --help was
\* given and is 1 on every failing run, on which nothing is printed.
C24_ExitCodeTellsOutcome ==
    Exited
        => /\ TokenPrinted <=> GenerationSucceeded
           /\ cli.exit_code \in {0, 1}
           /\ TokenPrinted => cli.exit_code = 0
           /\ cli.exit_code = 0 => (TokenPrinted \/ OptionGiven("--help"))

\* the run got past the parsing of its arguments
ArgumentsParsed ==
    \/ cli.pc \in {"config", "provider", "generate"}
    \/ Exited /\ (cli.inferences > 0 \/ cli.providers > 0)

\* C25: with --region omitted the region is inferred from the hostname, and
\* a failed inference ends the run with exit code 1 before a credentials
\* provider is created or a token generated; with --region given no
\* inference is attempted.
C25_RegionInferredWhenOmitted ==
    /\ [](OptionGiven("--region") => cli.inferences = 0)
    /\ []((cli.pc \in {"provider", "generate"} /\ ~OptionGiven("--region"))
            => /\ cli.inferences = 1
               /\ WellFormed(cli.ctx.hostname)
               /\ config.region = RegionOf(cli.ctx.hostname))
    /\ []((cli.pc \in {"provider", "generate"} /\ OptionGiven("--region"))
            => config.region = StrUsEast1)
    /\ [][(cli.pc = "config" /\ ~OptionGiven("--region"))
            => /\ cli'.inferences = 1
               /\ (~WellFormed(cli.ctx.hostname) \/ cli'.result # cli.result \/ cli'.pc = "exited")
                    => /\ cli'.pc = "exited" /\ cli'.exit_code = 1
                       /\ cli'.providers = 0 /\ cli'.generates = 0
                       /\ cli'.stdout = <<>>]_vars
    /\ []((Exited /\ cli.inferences = 1 /\ cli.providers = 0)
            => cli.exit_code = 1 /\ cli.generates = 0 /\ ~TokenPrinted)

\* a run without --region on a hostname the inference refuses
C25_Witness ==
    /\ Exited
    /\ ~OptionGiven("--region")
    /\ cli.ctx.hostname = StrPeccyHost
    /\ cli.inferences = 1
    /\ cli.exit_code = 1

----------------------------------------------------------------------------
(* The request and the signable.                                           *)

\* the signer holds the signable and its callback may still write the request
SignerAtWork == signing_cb.pc \notin {"none", "done"}

\* C26: once the request has been created, every exit path of generate
\* releases it exactly once and destroys the signable, if s_sign_request
\* created one, exactly once; the signable is destroyed before the request,
\* and neither is used, by the signer, its callback or the token assembly,
\* after it was released.
C26_RequestAndSignableReleasedOnce ==
    /\ [](request.state \in {"none", "live", "released"})
    /\ [](signable \in {"none", "live", "destroyed"})
    /\ []((pc = "returned" /\ calls > 0 /\ request.state # "none")
            => /\ request.state = "released"
               /\ signable \in {"none", "destroyed"})
    /\ [](request.state = "released" => signable # "live")
    /\ [](signable = "live" => request.state = "live")
    /\ [](SignerAtWork => signable = "live" /\ request.state = "live")
    /\ [](pc = "create_token" => request.state = "live" /\ signable = "destroyed")
    /\ [][request'.state # request.state
            => \/ request.state = "live" /\ request'.state = "released"
               \/ request.state = "none" /\ pc = "create_request"
               \/ request'.state = "none" /\ pc \in {"idle", "returned", "token_cleaned"}]_vars
    /\ [][signable' # signable
            => \/ signable = "live" /\ signable' = "destroyed"
               \/ signable = "none" /\ signable' = "live" /\ pc = "signable_new"
               \/ signable' = "none" /\ pc \in {"idle", "returned", "token_cleaned"}]_vars

\* a call whose signing failed in the callback has returned with the signable
\* destroyed and the request released
C26_Witness ==
    /\ pc = "returned" /\ ret = AWS_OP_ERR
    /\ signing_cb.pc = "done" /\ signing_cb.error_code # AWS_ERROR_SUCCESS
    /\ signable = "destroyed"
    /\ request.state = "released"

----------------------------------------------------------------------------
(* The token object on an error return.                                    *)

\* C28: a generate that returns an error leaves the token object as it was:
\* no step of a call but the last step of a successful one writes the token
\* or destroys a string, so a value generated before stays and an empty token
\* stays empty.
C28_ErrorLeavesToken ==
    /\ [][(pc' = "returned" /\ ret' # AWS_OP_SUCCESS)
            => token' = token /\ strings' = strings]_vars
    /\ [][(pc' # "token_cleaned" /\ (token' # token \/ strings' # strings))
            => /\ pc = "create_token"
               /\ pc' = "returned" /\ ret' = AWS_OP_SUCCESS]_vars

\* the second call failed in the assembly and the token still holds the
\* string of the first
C28_Witness ==
    /\ pc = "returned" /\ calls = 2 /\ ret = AWS_OP_ERR
    /\ request.state = "released" /\ signable = "destroyed"
    /\ context.init = "destroyed" /\ last_error = AWS_ERROR_OOM
    /\ token # NULL /\ token = previous.token
    /\ strings = [created |-> 1, destroyed |-> 0]

----------------------------------------------------------------------------
(* The bridges and their callbacks.                                        *)

\* a callback of the bridge has been handed out and has not yet returned
Pending(cb) == cb.pc \notin {"none", "done"}

\* C29: a bridge is torn down, and its frame left, only when no callback for
\* it is running or still to come: after a wait, once the callback has set the
\* flag and released the mutex; after a failed trigger, with no callback at
\* all.  A callback touches the bridge only while the bridge is live.
C29_NoTeardownUnderCallback ==
    /\ [](Pending(creds_cb) => creds_state.init = "live" /\ InLoadCredentials)
    /\ [](Pending(signing_cb) => context.init = "live" /\ InSignRequest)
    /\ [](creds_state.init = "destroyed" => ~Pending(creds_cb))
    /\ [](context.init = "destroyed" => ~Pending(signing_cb))
    /\ [][torn_down'.creds = torn_down.creds + 1
            => \/ creds_cb.pc = "none" /\ creds_cb'.pc = "none" /\ pc = "creds_get"
               \/ /\ creds_cb.pc = "done"
                  /\ creds_state.is_complete /\ creds_state.mutex = "none"]_vars
    /\ [][torn_down'.sign = torn_down.sign + 1
            => \/ signing_cb.pc = "none" /\ signing_cb'.pc = "none" /\ pc = "sign_call"
               \/ /\ signing_cb.pc = "done"
                  /\ context.is_signing_complete /\ context.mutex = "none"]_vars
    /\ [][(creds_state.init = "destroyed" /\ creds_cb'.pc # creds_cb.pc)
            => creds_cb' = NoCredsCallback /\ creds_state'.init = "none"]_vars
    /\ [][(context.init = "destroyed" /\ signing_cb'.pc # signing_cb.pc)
            => signing_cb' = NoSigningCallback /\ context'.init = "none"]_vars

\* the caller waited for a signing callback run on another thread, and has
\* torn the bridge down after it
C29_Witness ==
    /\ context.init = "destroyed"
    /\ waited.sign = "waited"
    /\ signing_cb.pc = "done" /\ ~signing_cb.sync
    /\ torn_down.sign = 1

----------------------------------------------------------------------------
(* What the signing callback does to the request.                          *)

\* the callback is past its call of aws_apply_signing_result_to_http_request
PastApply == signing_cb.pc \in {"applied", "coded", "flagged", "notified", "done"}

\* C30: the signing callback writes the request only when the signer reported
\* success: after a completion with a non-zero error code the request's path
\* is the one s_create_http_request gave it; and a signing that s_sign_request
\* reports as successful has the signing result applied to the path.
C30_AppliedOnlyOnSuccess ==
    /\ (PastApply /\ signing_cb.error_code # AWS_ERROR_SUCCESS)
          => request.path = ExpectedPath(is_admin)
    /\ pc = "create_token"
          => request.path = ExpectedPath(is_admin) \o <<"&">> \o signing_cb.result

----------------------------------------------------------------------------
(* The provider's reference count.                                         *)

\* C31: a set_credentials_provider with the provider the config already holds
\* never takes that provider's reference count to zero, not even in passing
\* and not even when the config's reference is the only one: the provider is
\* not destroyed, and afterwards the config holds one reference on it.
C31_SameProviderKeptAlive ==
    \A p \in Providers :
        provider_refs.same = p
            => /\ p \notin provider_refs.destroyed
               /\ Held(p) = 1
               /\ provider_refs.count[p] >= 1

----------------------------------------------------------------------------
(* The config after clean_up.                                              *)

\* C32: clean_up leaves the config all-zero, and a clean_up of a config that
\* is all-zero already, as after a first clean_up, releases no provider
\* reference and leaves it all-zero; generate on such a config fails with
\* AWS_ERROR_INVALID_ARGUMENT before the clock is read, with no resolution and
\* no signing triggered, and leaves the token empty.
C32_CleanUpIdempotent ==
    /\ [][aws_dsql_auth_config_clean_up => config' = ZeroConfig]_vars
    /\ [][(aws_dsql_auth_config_clean_up /\ config = ZeroConfig)
            => /\ config' = ZeroConfig
               /\ provider_refs'.released = provider_refs.released
               /\ provider_refs'.count = provider_refs.count
               /\ provider_refs'.destroyed = provider_refs.destroyed]_vars
    /\ []((pc = "returned" /\ calls > 0 /\ config = ZeroConfig)
            => /\ ret = AWS_OP_ERR
               /\ last_error = AWS_ERROR_INVALID_ARGUMENT
               /\ clock.source = "none"
               /\ resolve_calls = 0 /\ sign_calls = 0
               /\ creds_cb.pc = "none" /\ signing_cb.pc = "none"
               /\ token = NULL)

\* a provider and a hostname were set, the config was cleaned up twice, and
\* the generate call on it has returned
C32_Witness ==
    /\ pc = "returned" /\ calls = 1 /\ ret = AWS_OP_ERR
    /\ config = ZeroConfig
    /\ config_ops = 4
    /\ provider_refs.clean_ups = 2
    /\ provider_refs.acquired[Provider] = 1
    /\ provider_refs.released[Provider] = 1
    /\ provider_refs.count[Provider] = 1

====
